---------------------------- MODULE Spec2Model ----------------------------
(***************************************************************************)
(* Arbitrage detection and execution engine of the repository:            *)
(*   - the block-driven scanner (flashloan-base/BlockScannerBot.cjs),     *)
(*   - the flash-loan contract (flashloan-base/                           *)
(*     FlashLoanArbitrageBot23.sol),                                      *)
(*   - the triangular flash-swap contract TriFlash (unnamed/part_000).    *)
(* The three programs run on their own: every behaviour follows one of    *)
(* them (variable program).                                               *)
(***************************************************************************)
EXTENDS Integers, Sequences, FiniteSets, TLC

(***************************************************************************)
(* Bounds of the model.                                                    *)
(***************************************************************************)
\* block notifications delivered to the scanner in one behaviour
MaxBlocks == 2

(***************************************************************************)
(* JavaScript numbers.  A double is modelled by the real number it stands *)
(* for: a finite value is the exact rational n/d * 10^k (n/d in lowest    *)
(* terms, neither divisible by 10); the non-finite values are +Infinity,  *)
(* -Infinity and NaN.  Rounding of the 53-bit mantissa is not modelled.   *)
(* An arithmetic operator takes the values x, y of its operands x0, y0.   *)
(***************************************************************************)
RECURSIVE Gcd(_, _)
Gcd(a, b) == IF b = 0 THEN a ELSE Gcd(b, a % b)

Abs(x) == IF x < 0 THEN -x ELSE x

RECURSIVE Pow10(_)
Pow10(e) == IF e = 0 THEN 1 ELSE 10 * Pow10(e - 1)

\* the number of times 10 divides m (m # 0)
RECURSIVE Tens(_)
Tens(m) == IF m % 10 = 0 THEN 1 + Tens(m \div 10) ELSE 0

\* the finite number n/d * 10^k in its normal form
Fin(n, d, k) ==
  IF n = 0 THEN [cls |-> "fin", n |-> 0, d |-> 1, k |-> 0]
  ELSE LET g == Gcd(Abs(n), Abs(d))
           s == IF d < 0 THEN -1 ELSE 1
           n1 == s * (n \div g)
           d1 == s * (d \div g)
           tn == Tens(n1)
           td == Tens(d1)
       IN  [cls |-> "fin", n |-> n1 \div Pow10(tn), d |-> d1 \div Pow10(td),
            k |-> k + tn - td]

PosInf == [cls |-> "inf", n |-> 1, d |-> 1, k |-> 0]
NegInf == [cls |-> "inf", n |-> -1, d |-> 1, k |-> 0]
NaN == [cls |-> "nan", n |-> 0, d |-> 1, k |-> 0]
JSInt(i) == Fin(i, 1, 0)

JSSign(x) == IF x.n > 0 THEN 1 ELSE IF x.n < 0 THEN -1 ELSE 0

\* the numerator of the finite x at the decimal exponent e <= x.k
AtExp(x, e) == x.n * Pow10(x.k - e)

MinExp(x, y) == IF x.k < y.k THEN x.k ELSE y.k

\* x - y (IEEE: Infinity - Infinity is NaN)
JSSub(x0, y0) ==
  CHOOSE r \in {(
    CASE x.cls = "nan" \/ y.cls = "nan" -> NaN
      [] x.cls = "inf" /\ y.cls = "inf" -> IF x.n = y.n THEN NaN ELSE x
      [] x.cls = "inf" -> x
      [] y.cls = "inf" -> IF y.n > 0 THEN NegInf ELSE PosInf
      [] OTHER -> LET e == MinExp(x, y)
                  IN  Fin(AtExp(x, e) * y.d - AtExp(y, e) * x.d, x.d * y.d, e)
    ) : x \in {x0}, y \in {y0}} : TRUE

\* x + y
JSAdd(x0, y0) ==
  CHOOSE r \in {(
    CASE x.cls = "nan" \/ y.cls = "nan" -> NaN
      [] x.cls = "inf" /\ y.cls = "inf" -> IF x.n = y.n THEN x ELSE NaN
      [] x.cls = "inf" -> x
      [] y.cls = "inf" -> y
      [] OTHER -> LET e == MinExp(x, y)
                  IN  Fin(AtExp(x, e) * y.d + AtExp(y, e) * x.d, x.d * y.d, e)
    ) : x \in {x0}, y \in {y0}} : TRUE

\* x * y
JSMul(x0, y0) ==
  CHOOSE r \in {(
    CASE x.cls = "nan" \/ y.cls = "nan" -> NaN
      [] x.cls = "inf" \/ y.cls = "inf" ->
           IF JSSign(x) * JSSign(y) = 0 THEN NaN
           ELSE IF JSSign(x) * JSSign(y) > 0 THEN PosInf ELSE NegInf
      [] OTHER -> Fin(x.n * y.n, x.d * y.d, x.k + y.k)
    ) : x \in {x0}, y \in {y0}} : TRUE

\* x / y (IEEE: x / 0 is +-Infinity, 0 / 0 and Infinity / Infinity are NaN)
JSDiv(x0, y0) ==
  CHOOSE r \in {(
    CASE x.cls = "nan" \/ y.cls = "nan" -> NaN
      [] x.cls = "inf" /\ y.cls = "inf" -> NaN
      [] x.cls = "inf" -> IF JSSign(x) * JSSign(y) < 0 THEN NegInf ELSE PosInf
      [] y.cls = "inf" -> JSInt(0)
      [] y.n = 0 -> IF x.n = 0 THEN NaN ELSE IF x.n > 0 THEN PosInf ELSE NegInf
      [] OTHER -> Fin(x.n * y.d, x.d * y.n, x.k - y.k)
    ) : x \in {x0}, y \in {y0}} : TRUE

\* x < y; every comparison with NaN is false
JSLess(x, y) ==
  CASE x.cls = "nan" \/ y.cls = "nan" -> FALSE
    [] x.cls = "inf" /\ y.cls = "inf" -> x.n < y.n
    [] x.cls = "inf" -> x.n < 0
    [] y.cls = "inf" -> y.n > 0
    [] OTHER -> JSSub(x, y).n < 0

JSEq(x, y) == x.cls # "nan" /\ y.cls # "nan" /\ x = y

\* x >= y
JSGe(x, y) == JSLess(y, x) \/ JSEq(x, y)

\* Math.min / Math.max: NaN if either argument is NaN
JSMin(x, y) ==
  IF x.cls = "nan" \/ y.cls = "nan" THEN NaN ELSE IF JSLess(y, x) THEN y ELSE x

JSMax(x, y) ==
  IF x.cls = "nan" \/ y.cls = "nan" THEN NaN ELSE IF JSLess(x, y) THEN y ELSE x

\* the value null
Null == [cls |-> "null", n |-> 0, d |-> 1, k |-> 0]

\* a test that nothing fails
Falsy_Never(x) == FALSE

\* a test for null alone
Falsy_NullOnly(x) == x.cls = "null"

\* !x : null, 0 and NaN are falsy
Falsy(x) == x.cls \in {"null", "nan"} \/ (x.cls = "fin" /\ x.n = 0)


(***************************************************************************)
(* Solidity's uint256.  A value is the sequence of its base-10000 digits   *)
(* ("limbs"), the lowest first and the highest not 0; << >> is 0.         *)
(***************************************************************************)
\* the value of F at the value of v
Eager(v, F(_)) == CHOOSE r \in {F(x) : x \in {v}} : TRUE

Limb(a, i) == IF i >= 1 /\ i <= Len(a) THEN a[i] ELSE 0

Max(S) == CHOOSE m \in S : \A n \in S : n <= m

\* a without its leading zero limbs
BNTrim(a) == SubSeq(a, 1, Max({0} \cup {i \in 1..Len(a) : a[i] # 0}))

\* the natural number n < 10^8
BN(n) == BNTrim(<<n % 10000, n \div 10000>>)

\* -1, 0, 1 as a < b, a = b, a > b
BNCmp(a, b) ==
  IF Len(a) # Len(b) THEN (IF Len(a) < Len(b) THEN -1 ELSE 1)
  ELSE LET D == {i \in 1..Len(a) : a[i] # b[i]}
       IN  IF D = {} THEN 0 ELSE IF a[Max(D)] < b[Max(D)] THEN -1 ELSE 1

\* a + b: limb i receives a carry iff a lower limb generates one and the
\* limbs between pass it on
BNAdd(a, b) ==
  LET n == (IF Len(a) > Len(b) THEN Len(a) ELSE Len(b)) + 1
      s == [i \in 1..n |-> Limb(a, i) + Limb(b, i)]
      c == [i \in 1..n |->
              IF \E j \in 1..(i - 1) :
                   s[j] >= 10000 /\ \A k \in (j + 1)..(i - 1) : s[k] = 9999
              THEN 1 ELSE 0]
  IN  BNTrim([i \in 1..n |-> (s[i] + c[i]) % 10000])

\* a - b for a >= b, the borrows found the same way
BNSub(a, b) ==
  LET n == Len(a)
      c == [i \in 1..n |->
              IF \E j \in 1..(i - 1) :
                   a[j] < Limb(b, j) /\ \A k \in (j + 1)..(i - 1) : a[k] = Limb(b, k)
              THEN 1 ELSE 0]
  IN  BNTrim([i \in 1..n |-> (a[i] - Limb(b, i) - c[i] + 10000) % 10000])

\* a * 10000
BNShift(a) == IF a = << >> THEN a ELSE <<0>> \o a

\* a * m for a limb m
BNMulLimb(a, m) ==
  LET p == [i \in 1..Len(a) |-> a[i] * m]
  IN  BNAdd(BNTrim([i \in 1..Len(a) |-> p[i] % 10000]),
            BNShift(BNTrim([i \in 1..Len(a) |-> p[i] \div 10000])))

RECURSIVE BNMulAt(_, _, _)
BNMulAt(a, b, j) ==
  IF j > Len(b) THEN << >>
  ELSE Eager(BNMulAt(a, b, j + 1),
             LAMBDA hi : BNAdd(BNMulLimb(a, b[j]), BNShift(hi)))

\* a * b
BNMul(a0, b0) == Eager(a0, LAMBDA a : Eager(b0, LAMBDA b : BNMulAt(a, b, 1)))

\* the limb d with b * d <= r < b * (d + 1), for r < b * 10000 and the top
\* limb of b at least 5000: d is at most 2 below the quotient of the top limbs
BNDigit(r, b) ==
  LET n == Len(b)
      top == Limb(r, n + 1) * 10000 + Limb(r, n)
      hi == IF top \div b[n] > 9999 THEN 9999 ELSE top \div b[n]
      lo == IF hi < 3 THEN 0 ELSE hi - 3
  IN  Max({d \in lo..hi : BNCmp(BNMulLimb(b, d), r) <= 0})

\* long division of the limbs Len(a)..i of a by b: quotient and remainder
RECURSIVE BNDivAt(_, _, _)
BNDivAt(a, b, i) ==
  IF i > Len(a) THEN [q |-> << >>, rem |-> << >>]
  ELSE Eager(BNDivAt(a, b, i + 1), LAMBDA s :
       Eager(BNTrim(<<a[i]>> \o s.rem), LAMBDA r :
       Eager(BNDigit(r, b), LAMBDA d :
         [q |-> <<d>> \o s.q, rem |-> BNSub(r, BNMulLimb(b, d))])))

\* a \div b for b # 0; both are scaled to bring the top limb of b to 5000
BNDiv(a0, b0) ==
  Eager(b0, LAMBDA b :
  Eager(10000 \div (b[Len(b)] + 1), LAMBDA f :
    BNTrim(BNDivAt(BNMulLimb(a0, f), BNMulLimb(b, f), 1).q)))

\* a ** e
RECURSIVE BNPow(_, _)
BNPow(a, e) ==
  IF e = 0 THEN <<1>>
  ELSE IF e % 2 = 0 THEN Eager(BNPow(a, e \div 2), LAMBDA h : BNMul(h, h))
  ELSE BNMul(a, BNPow(a, e - 1))

\* a checked operation (Solidity 0.8) that overflows, underflows or divides
\* by 0 reverts with a panic
Panic == <<-1>>

TwoTo256 == BNPow(<<2>>, 256)

UMul(a0, b0) ==
  Eager(a0, LAMBDA a : Eager(b0, LAMBDA b :
    IF a = Panic \/ b = Panic THEN Panic
    ELSE Eager(BNMul(a, b), LAMBDA p : IF BNCmp(p, TwoTo256) < 0 THEN p ELSE Panic)))

UAdd(a0, b0) ==
  Eager(a0, LAMBDA a : Eager(b0, LAMBDA b :
    IF a = Panic \/ b = Panic THEN Panic
    ELSE Eager(BNAdd(a, b), LAMBDA p : IF BNCmp(p, TwoTo256) < 0 THEN p ELSE Panic)))

USub(a0, b0) ==
  Eager(a0, LAMBDA a : Eager(b0, LAMBDA b :
    IF a = Panic \/ b = Panic \/ BNCmp(a, b) < 0 THEN Panic ELSE BNSub(a, b)))

UDiv(a0, b0) ==
  Eager(a0, LAMBDA a : Eager(b0, LAMBDA b :
    IF a = Panic \/ b = Panic \/ b = << >> THEN Panic ELSE BNDiv(a, b)))

\* a >> n
UShr(a, n) == UDiv(a, BNPow(<<2>>, n))

\* a ** e
UPow(a0, e) ==
  Eager(BNPow(a0, e), LAMBDA p : IF BNCmp(p, TwoTo256) < 0 THEN p ELSE Panic)


(***************************************************************************)
(* The state of the three programs                                         *)
(***************************************************************************)
\* the scanner
VARIABLES
  program,          \* which program this behaviour runs
  env,              \* the required settings that process.env holds
  arbEnv,           \* process.env.ARB_THRESHOLD_BPS: << >> when unset, else <<value>>
  flashEnv,         \* process.env.FLASHLOAN_THRESHOLD_BPS, the option the file
                    \* header names (line 24): << >> when unset, else <<value>>
  usdcIsToken0,     \* the pair's pools have token0 = tokenA (USDC)
  blockNumber,      \* block notifications delivered so far
  processingBlock,  \* the re-entrancy guard
  opportunityCount,
  flashloanCount,
  cyc,              \* cyc[b]: the call handleBlock(b)
  lastEval,         \* the data object and the action of the cycle that evaluated
                    \* last, kept until the next cycle begins
  log,              \* arbitrage_log.txt, one record per appended line
  unresolved        \* the scanner's transactions broadcast and neither mined
                    \* nor failed

scanVars == <<env, arbEnv, flashEnv, usdcIsToken0, blockNumber, processingBlock,
              opportunityCount, flashloanCount, cyc, lastEval, log, unresolved>>

\* the flash-loan contract
VARIABLES
  owner,            \* storage, set by the constructor (line 88)
  wethIsToken0,     \* the WETH/USDC pools have token0 = WETH
  arbThresholdBps,  \* storage, set by the constructor
  chain,            \* what the pools and the oracle answer during the transaction
  ledger,           \* token balances, the allowances given by the contract and
                    \* the events it emitted
  snap,             \* the ledger when the transaction began
  tx,               \* the transaction in execution, or what the last one left
  txCount

conVars == <<owner, wethIsToken0, arbThresholdBps, chain, ledger, snap, tx, txCount>>

\* TriFlash
VARIABLES
  tri,        \* the call of initFlash in execution, or what the last one left
  triLedger,  \* token balances
  triSnap,    \* triLedger when the transaction began
  triCount

triVars == <<tri, triLedger, triSnap, triCount>>

vars == <<program, scanVars, conVars, triVars>>

(***************************************************************************)
(* The scanner: BlockScannerBot.cjs                                        *)
(***************************************************************************)

Blocks == 1..MaxBlocks

tokenADecimals == 6
tokenBDecimals == 18

\* 10 ** (tokenBDecimals - tokenADecimals)
adjust == Fin(1, 1, tokenBDecimals - tokenADecimals)

\* values of ARB_THRESHOLD_BPS in the environment
EnvThresholds == {<< >>, <<50>>}

\* parseFloat(process.env.ARB_THRESHOLD_BPS || "11")
FLASHLOAN_THRESHOLD_BPS == IF arbEnv = << >> THEN JSInt(11) ELSE JSInt(arbEnv[1])

\* quote-per-base prices the venues may show, in USDC per WETH
PricePoints == {3000, 3010}

\* (sqrtPriceX96 / 2 ** 96) ** 2 of a pool showing price p: token1 per token0
\* in raw units; 0 for a pool that is not initialised
RawOf(p) ==
  IF usdcIsToken0 THEN Fin(1, p, tokenBDecimals - tokenADecimals)
                  ELSE Fin(p, 1, tokenADecimals - tokenBDecimals)
RawPrices == {JSInt(0)} \cup {RawOf(p) : p \in PricePoints}

\* getAssetPrice results (uint256, in the oracle's base currency)
UsdcOraclePrices == {0, 1}
WethOraclePrices == {0, 2995, 3050}

\* outOfRange: a pool read in this call had its current price outside its
\* active range, which slot0()[0] does not tell
Blank == [pc |-> "idle", venue |-> "-", tmp |-> Null,
          uniPrice |-> Null, sushiPrice |-> Null, outOfRange |-> FALSE]

NoEval == [cycle |-> 0, uniPrice |-> Null, sushiPrice |-> Null, aavePrice |-> Null,
           BApercent |-> Null, DSpercent |-> Null, totalArbsbps |-> Null,
           route |-> "-", action |-> "-"]

\* the settings the scanner reads without a default
Required == {"BASE_RPC_URL", "PRIVATE_KEY", "CONTRACT_ADDRESS", "USDC_ADDRESS",
             "WETH_ADDRESS", "Base_Pool_Provider"}

\* every setting present, or one of them missing
Envs == {Required} \cup {Required \ {s} : s \in Required}

\* lines 36-68 and 246: how the load of the script ends.  Line 36 builds the
\* provider of the default URL when BASE_RPC_URL is undefined; line 37 throws
\* on an undefined key; lines 40-44 and 64-68 exit; lines 53-54 keep tokenA
\* and tokenB as they are read.
Startup(e) ==
  IF "PRIVATE_KEY" \notin e THEN "throws"
  ELSE IF "CONTRACT_ADDRESS" \notin e THEN "exit"
  ELSE IF "Base_Pool_Provider" \notin e THEN "exit"
  ELSE "subscribed"

\* lines 53-54: tokenA and tokenB are addresses
TokensSet == {"USDC_ADDRESS", "WETH_ADDRESS"} \subseteq env

\* the scanner is not started
ScanIdle ==
  /\ env = Required
  /\ arbEnv = << >>
  /\ flashEnv = << >>
  /\ usdcIsToken0 = TRUE
  /\ blockNumber = 0
  /\ processingBlock = FALSE
  /\ opportunityCount = 0
  /\ flashloanCount = 0
  /\ cyc = [b \in Blocks |-> Blank]
  /\ lastEval = NoEval
  /\ log = << >>
  /\ unresolved = 0

\* a missing setting, and FLASHLOAN_THRESHOLD_BPS set, are explored with
\* ARB_THRESHOLD_BPS unset and one token order
ScanInit ==
  /\ env \in Envs
  /\ arbEnv \in EnvThresholds
  /\ usdcIsToken0 \in BOOLEAN
  /\ env # Required => (arbEnv = << >> /\ usdcIsToken0)
  /\ flashEnv \in EnvThresholds
  /\ flashEnv # << >> => (env = Required /\ arbEnv = << >> /\ usdcIsToken0)
  /\ blockNumber = 0
  /\ processingBlock = FALSE
  /\ opportunityCount = 0
  /\ flashloanCount = 0
  /\ cyc = [b \in Blocks |-> Blank]
  /\ lastEval = NoEval
  /\ log = << >>
  /\ unresolved = 0

Running(b) == cyc[b].pc \notin {"idle", "dropped", "done", "rejected"}

\* fs.appendFileSync(LOG_FILE, line): the line is appended or the call throws
Line(b, kind, action) == [cycle |-> b, kind |-> kind, action |-> action]

\* lines 236-241: the outer catch logs the error; finally releases the guard
OuterCatch(lg, b, ok) ==
  IF ok THEN [log |-> Append(lg, Line(b, "monitor_error", "-")), pc |-> "done"]
        ELSE [log |-> lg, pc |-> "rejected"]

\* a log line written inside the outer try (lines 195, 234), then return;
\* fs lists whether each appendFileSync that follows succeeds
WriteAndReturn(lg, b, line, fs) ==
  IF fs[1] THEN [log |-> Append(lg, line), pc |-> "done"]
           ELSE OuterCatch(lg, b, fs[2])

\* lines 226-235 of a triggered cycle: the summary line
AfterTry(lg, b, fs) ==
  WriteAndReturn(lg, b, Line(b, "summary", "FLASHLOAN_TRIGGERED"), fs)

\* lines 220-223 with the call of line 215 made again after the error is logged
InnerCatch_Retry(lg, b, fs) ==
  [log |-> Append(lg, Line(b, "tx_error", "-")), pc |-> "executeFlashLoan"]

\* lines 220-223: the inner catch logs the error and the cycle goes on
InnerCatch(lg, b, fs) ==
  IF fs[1] THEN AfterTry(Append(lg, Line(b, "tx_error", "-")), b, Tail(fs))
           ELSE OuterCatch(lg, b, fs[2])

\* lines 218-219: the receipt is logged
TxMined(lg, b, fs) ==
  IF fs[1] THEN AfterTry(Append(lg, Line(b, "tx", "-")), b, Tail(fs))
           ELSE InnerCatch(lg, b, Tail(fs))

Fs(n) == [1..n -> BOOLEAN]

\* the guard reset at the end of the try and of the catch, not in a finally
EndCycle_NoFinally(b, r) ==
  /\ log' = r.log
  /\ cyc' = [cyc EXCEPT ![b] = [Blank EXCEPT !.pc = r.pc]]
  /\ processingBlock' = (r.pc = "rejected")

\* the end of handleBlock(b): result r = [log, pc]; the guard is released in finally
EndCycle(b, r) ==
  /\ log' = r.log
  /\ cyc' = [cyc EXCEPT ![b] = [Blank EXCEPT !.pc = r.pc]]
  /\ processingBlock' = FALSE

\* lines 184-186 and the call chain down to factory.getPool of the first venue
\* the guard is never consulted
handleBlock_guard_Off(b) == FALSE

\* line 185: skip overlapping blocks
handleBlock_guard(b) == processingBlock

BlockArrives ==
  /\ program = "scanner"
  /\ Startup(env) = "subscribed"
  /\ blockNumber < MaxBlocks
  /\ blockNumber' = blockNumber + 1
  /\ LET b == blockNumber + 1 IN
     IF handleBlock_guard(b)
     THEN /\ cyc' = [cyc EXCEPT ![b].pc = "dropped"]
          /\ UNCHANGED <<processingBlock, opportunityCount, flashloanCount, lastEval, log>>
     ELSE /\ processingBlock' = TRUE
          /\ cyc' = [cyc EXCEPT ![b].pc = "getPool", ![b].venue = "uni"]
          /\ lastEval' = NoEval
          /\ UNCHANGED <<opportunityCount, flashloanCount, log>>
  /\ UNCHANGED <<program, conVars, triVars, env, arbEnv, flashEnv, usdcIsToken0, unresolved>>


\* lines 192-198: data is null
NoData(b) ==
  \E fs \in Fs(2) : EndCycle(b, WriteAndReturn(log, b, Line(b, "nodata", "-"), fs))

\* lines 123-132 of getPoolPrice: the price from the pool's reads
getPoolPrice(rawPrice0, tk0IsTokenA, tk1IsTokenB) ==
  LET rawPrice == IF tk0IsTokenA /\ tk1IsTokenB
                  THEN JSDiv(JSInt(1), rawPrice0)
                  ELSE rawPrice0
  IN  JSMul(rawPrice, adjust)

\* getPoolPrice has returned price for the venue cyc[b].venue: lines 150-152
VenueDone(b, price) ==
  IF cyc[b].venue = "uni"
  THEN /\ cyc' = [cyc EXCEPT ![b].uniPrice = price, ![b].venue = "sushi",
                             ![b].pc = "getPool", ![b].tmp = Null]
       /\ UNCHANGED <<processingBlock, log>>
  ELSE IF Falsy(cyc[b].uniPrice) \/ Falsy(price)
       THEN NoData(b)
       ELSE /\ cyc' = [cyc EXCEPT ![b].sushiPrice = price, ![b].venue = "-",
                                  ![b].pc = "getPriceOracle", ![b].tmp = Null]
            /\ UNCHANGED <<processingBlock, log>>

\* line 116-117: factory.getPool answers
GetPoolReturns(b, exists) ==
  /\ program = "scanner"
  /\ TokensSet
  /\ cyc[b].pc = "getPool"
  /\ IF exists
     THEN /\ cyc' = [cyc EXCEPT ![b].pc = "slot0"]
          /\ UNCHANGED <<processingBlock, log>>
     ELSE VenueDone(b, Null)
  /\ UNCHANGED <<program, conVars, triVars, env, arbEnv, flashEnv, usdcIsToken0, unresolved, blockNumber, opportunityCount,
                 flashloanCount, lastEval>>

\* lines 120-123: pool.slot0 answers; of its fields the code keeps
\* sqrtPriceX96 alone
Slot0Returns(b, rawPrice, activeRangeValid) ==
  /\ program = "scanner"
  /\ cyc[b].pc = "slot0"
  /\ cyc' = [cyc EXCEPT ![b].pc = "token0", ![b].tmp = rawPrice,
                        ![b].outOfRange = @ \/ ~activeRangeValid]
  /\ UNCHANGED <<program, conVars, triVars, env, arbEnv, flashEnv, usdcIsToken0, unresolved, blockNumber, processingBlock,
                 opportunityCount, flashloanCount, lastEval, log>>

\* line 125: pool.token0 answers
Token0Returns(b) ==
  /\ program = "scanner"
  /\ cyc[b].pc = "token0"
  /\ cyc' = [cyc EXCEPT ![b].pc = "token1"]
  /\ UNCHANGED <<program, conVars, triVars, env, arbEnv, flashEnv, usdcIsToken0, unresolved, blockNumber, processingBlock,
                 opportunityCount, flashloanCount, lastEval, log>>

\* lines 126-132: pool.token1 answers and getPoolPrice returns
Token1Returns(b) ==
  /\ program = "scanner"
  /\ cyc[b].pc = "token1"
  /\ VenueDone(b, getPoolPrice(cyc[b].tmp, usdcIsToken0, usdcIsToken0))
  /\ UNCHANGED <<program, conVars, triVars, env, arbEnv, flashEnv, usdcIsToken0, unresolved, blockNumber, opportunityCount,
                 flashloanCount, lastEval>>

\* a pool query rejects: nothing catches it before handleBlock's catch
VenueReadThrows(b) ==
  /\ program = "scanner"
  /\ cyc[b].pc \in {"getPool", "slot0", "token0", "token1"}
  /\ \E ok \in BOOLEAN : EndCycle(b, OuterCatch(log, b, ok))
  /\ UNCHANGED <<program, conVars, triVars, env, arbEnv, flashEnv, usdcIsToken0, unresolved, blockNumber, opportunityCount,
                 flashloanCount, lastEval>>


\* an exception thrown instead of a value returned
Thrown == [cls |-> "throw", n |-> 0, d |-> 1, k |-> 0]

\* lines 143-146 without the test of line 145
getOracleRatio_Unchecked(usdcPriceBN, wethPriceBN) ==
  JSDiv(JSInt(wethPriceBN), JSInt(usdcPriceBN))

\* lines 143-146 of getOracleRatio
getOracleRatio(usdcPriceBN, wethPriceBN) ==
  LET usdcPrice == JSInt(usdcPriceBN)
      wethPrice == JSInt(wethPriceBN)
  IN  IF JSGe(JSInt(0), usdcPrice) \/ JSGe(JSInt(0), wethPrice)
      THEN Thrown
      ELSE JSDiv(wethPrice, usdcPrice)

\* lines 154-176 of checkArbitrageOpportunity: the data object
checkArbitrageOpportunity(uniPrice, sushiPrice, aavePrice) ==
  LET cheapest == JSMin(uniPrice, sushiPrice)
      expensive == JSMax(uniPrice, sushiPrice)
      BApercent == JSMul(JSDiv(JSSub(cheapest, aavePrice), cheapest), JSInt(100))
      DSpercent == JSMul(JSDiv(JSSub(expensive, cheapest), cheapest), JSInt(100))
      totalArbsbps == JSMul(JSAdd(BApercent, DSpercent), JSInt(100))
  IN  [uniPrice |-> uniPrice, sushiPrice |-> sushiPrice, aavePrice |-> aavePrice,
       BApercent |-> BApercent, DSpercent |-> DSpercent,
       totalArbsbps |-> totalArbsbps]

\* lines 203-206
Route(uniPrice, sushiPrice) ==
  IF JSLess(uniPrice, sushiPrice) THEN "Buy Uni / Sell Sushi"
  ELSE IF JSLess(sushiPrice, uniPrice) THEN "Buy Sushi / Sell Uni"
  ELSE "No route advantage"

\* line 209 with every cycle that has data triggering
Triggers_Always(totalArbsbps) == TRUE

\* line 209 with > in place of >=
Triggers_Strict(totalArbsbps) ==
  /\ JSGe(totalArbsbps, FLASHLOAN_THRESHOLD_BPS)
  /\ ~JSEq(totalArbsbps, FLASHLOAN_THRESHOLD_BPS)

\* line 209 with a trigger allowed once only
Triggers_Once(totalArbsbps) ==
  JSGe(totalArbsbps, FLASHLOAN_THRESHOLD_BPS) /\ flashloanCount = 0

\* line 209: the trigger condition
Triggers(totalArbsbps) == JSGe(totalArbsbps, FLASHLOAN_THRESHOLD_BPS)

\* lines 200-235: handleBlock goes on with the data object
Evaluated(b, data) ==
  LET route == Route(data.uniPrice, data.sushiPrice)
      trig == Triggers(data.totalArbsbps)
      action == IF trig THEN "FLASHLOAN_TRIGGERED" ELSE "NO_FLASHLOAN"
  IN  /\ opportunityCount' = opportunityCount + 1
      /\ lastEval' = [cycle |-> b, uniPrice |-> data.uniPrice,
                      sushiPrice |-> data.sushiPrice, aavePrice |-> data.aavePrice,
                      BApercent |-> data.BApercent, DSpercent |-> data.DSpercent,
                      totalArbsbps |-> data.totalArbsbps,
                      route |-> route, action |-> action]
      /\ IF trig
         THEN /\ flashloanCount' = flashloanCount + 1
              /\ cyc' = [cyc EXCEPT ![b] = [Blank EXCEPT !.pc = "executeFlashLoan"]]
              /\ UNCHANGED <<processingBlock, log>>
         ELSE /\ UNCHANGED flashloanCount
              /\ \E fs \in Fs(2) :
                   EndCycle(b, WriteAndReturn(log, b, Line(b, "summary", action), fs))

\* lines 136-138: getPriceOracle answers; a zero address throws, which
\* checkArbitrageOpportunity catches (lines 158-163) and returns null
GetPriceOracleReturns(b, zero) ==
  /\ program = "scanner"
  /\ cyc[b].pc = "getPriceOracle"
  /\ IF zero
     THEN NoData(b)
     ELSE /\ cyc' = [cyc EXCEPT ![b].pc = "getAssetPriceA"]
          /\ UNCHANGED <<processingBlock, log>>
  /\ UNCHANGED <<program, conVars, triVars, env, arbEnv, flashEnv, usdcIsToken0, unresolved, blockNumber, opportunityCount,
                 flashloanCount, lastEval>>

\* line 141: getAssetPrice(tokenA) answers
GetAssetPriceAReturns(b, usdcPriceBN) ==
  /\ program = "scanner"
  /\ cyc[b].pc = "getAssetPriceA"
  /\ cyc' = [cyc EXCEPT ![b].pc = "getAssetPriceB", ![b].tmp = JSInt(usdcPriceBN)]
  /\ UNCHANGED <<program, conVars, triVars, env, arbEnv, flashEnv, usdcIsToken0, unresolved, blockNumber, processingBlock,
                 opportunityCount, flashloanCount, lastEval, log>>

\* lines 142-146: getAssetPrice(tokenB) answers, getOracleRatio returns or
\* throws, and handleBlock goes on
GetAssetPriceBReturns(b, wethPriceBN) ==
  /\ program = "scanner"
  /\ cyc[b].pc = "getAssetPriceB"
  /\ LET aavePrice == getOracleRatio(cyc[b].tmp.n, wethPriceBN)
     IN  IF aavePrice = Thrown
         THEN /\ NoData(b)
              /\ UNCHANGED <<opportunityCount, flashloanCount, lastEval>>
         ELSE Evaluated(b, checkArbitrageOpportunity(cyc[b].uniPrice,
                                                     cyc[b].sushiPrice, aavePrice))
  /\ UNCHANGED <<program, conVars, triVars, env, arbEnv, flashEnv, usdcIsToken0, unresolved, blockNumber>>

\* an oracle query rejects: caught at lines 160-163, data is null
OracleReadThrows(b) ==
  /\ program = "scanner"
  /\ cyc[b].pc \in {"getPriceOracle", "getAssetPriceA", "getAssetPriceB"}
  /\ NoData(b)
  /\ UNCHANGED <<program, conVars, triVars, env, arbEnv, flashEnv, usdcIsToken0, unresolved, blockNumber, opportunityCount,
                 flashloanCount, lastEval>>

\* line 215: executeFlashLoan is sent
SendReturns(b) ==
  /\ program = "scanner"
  /\ cyc[b].pc = "executeFlashLoan"
  /\ cyc' = [cyc EXCEPT ![b].pc = "wait"]
  /\ unresolved' = unresolved + 1
  /\ UNCHANGED <<program, conVars, triVars, env, arbEnv, flashEnv, usdcIsToken0, blockNumber, processingBlock,
                 opportunityCount, flashloanCount, lastEval, log>>

\* line 217: tx.wait resolves with the receipt
WaitReturns(b) ==
  /\ program = "scanner"
  /\ cyc[b].pc = "wait"
  /\ \E fs \in Fs(4) : EndCycle(b, TxMined(log, b, fs))
  /\ unresolved' = unresolved - 1
  /\ UNCHANGED <<program, conVars, triVars, env, arbEnv, flashEnv, usdcIsToken0, blockNumber, opportunityCount,
                 flashloanCount, lastEval>>

\* the transactions left unresolved when the call awaited at pc rejects.
\* Line 215 rejects before anything is broadcast (the gas estimate fails) or
\* after the broadcast (the node's answer is lost); line 217 rejects because
\* the transaction reverted or was dropped, or because a query of the
\* provider failed while the transaction is still pending.
AfterReject(pc, pending) ==
  IF pc = "executeFlashLoan"
  THEN IF pending THEN unresolved + 1 ELSE unresolved
  ELSE IF pending THEN unresolved ELSE unresolved - 1

\* lines 215-223: the send or the wait rejects
TxThrows(b) ==
  /\ program = "scanner"
  /\ cyc[b].pc \in {"executeFlashLoan", "wait"}
  /\ \E fs \in Fs(3) : EndCycle(b, InnerCatch(log, b, fs))
  /\ \E pending \in BOOLEAN : unresolved' = AfterReject(cyc[b].pc, pending)
  /\ UNCHANGED <<program, conVars, triVars, env, arbEnv, flashEnv, usdcIsToken0, blockNumber, opportunityCount,
                 flashloanCount, lastEval>>

\* a transaction that no cycle waits for is mined or dropped
TxSettles ==
  /\ program = "scanner"
  /\ unresolved > Cardinality({b \in Blocks : cyc[b].pc = "wait"})
  /\ unresolved' = unresolved - 1
  /\ UNCHANGED <<program, conVars, triVars, env, arbEnv, flashEnv, usdcIsToken0, blockNumber, processingBlock,
                 opportunityCount, flashloanCount, cyc, lastEval, log>>

\* one step of the running cycle b: an awaited call settles
CycleStep(b) ==
  \/ \E exists \in BOOLEAN : GetPoolReturns(b, exists)
  \/ \E rawPrice \in RawPrices, activeRangeValid \in BOOLEAN :
       Slot0Returns(b, rawPrice, activeRangeValid)
  \/ Token0Returns(b)
  \/ Token1Returns(b)
  \/ VenueReadThrows(b)
  \/ \E zero \in BOOLEAN : GetPriceOracleReturns(b, zero)
  \/ \E v \in UsdcOraclePrices : GetAssetPriceAReturns(b, v)
  \/ \E v \in WethOraclePrices : GetAssetPriceBReturns(b, v)
  \/ OracleReadThrows(b)
  \/ SendReturns(b)
  \/ WaitReturns(b)
  \/ TxThrows(b)

ScanNext == BlockArrives \/ TxSettles \/ \E b \in Blocks : CycleStep(b)

(***************************************************************************)
(* The flash-loan contract: FlashLoanArbitrageBot23.sol                    *)
(* A call of executeFlashLoan is one transaction; it is followed statement *)
(* by statement, the calls into Aave, the routers, the pools and the oracle*)
(* answering as those contracts may.                                       *)
(***************************************************************************)
\* transactions sent to the contract in one behaviour
MaxTxs == 2


\* constructor arguments _wethDecimals, _usdcDecimals of the two tokens
wethDecimals == 18
usdcDecimals == 6

\* constructor argument _arbThresholdBps
Thresholds == {11, 49}

Tokens == {"weth", "usdc"}
Accounts == {"bot", "aave", "uni", "sushi", "owner", "other"}
Spenders == {"aave", "uni", "sushi"}
Callers == {"owner", "other"}
\* the account that deployed the contract
Deployer == "owner"

\* executeFlashLoan's flashAmount, Aave's premium, and what the two swaps pay out
FlashAmounts == {100}
Premiums == {1}
UsdcOuts == {300}
WethOuts == {96, 101, 102}

\* slot0().sqrtPriceX96 (uint160) of a pool with token0 = WETH:
\* WETH at 3000 and at 3010 USDC, in raw units (USDC 6, WETH 18 decimals)
SqrtW_Real3000 == <<1521, 8943, 7794, 9874, 517, 3395, 4>>
SqrtW_Real3010 == <<4908, 856, 6487, 1441, 3167, 3467, 4>>
\* the least values whose square is 3000 * 10^12 and 3010 * 10^12 times 2^192
SqrtW_3000 == <<2829, 4153, 7862, 1521, 8943, 7794, 9874, 517, 3395, 4>>
SqrtW_3010 == <<2012, 9476, 3975, 4908, 856, 6487, 1441, 3167, 3467, 4>>
\* of a pool with token0 = USDC: WETH at 3000 and at 3010 USDC
SqrtU_Real3000 == <<7177, 2874, 1739, 6477, 2649, 6249, 1726, 4650, 14>>
SqrtU_Real3010 == <<9721, 9155, 1522, 2945, 7897, 8111, 6900, 4409, 14>>
\* 2^128, and 0 of a pool that is not initialised
SqrtBig == BNPow(<<2>>, 128)
\* 2^128 - 1, the greatest value whose square fits uint256
SqrtMax == BNSub(SqrtBig, <<1>>)

SqrtPrices ==
  IF wethIsToken0
  THEN {<< >>, SqrtW_Real3000, SqrtW_3000, SqrtW_3010, SqrtBig}
  ELSE {<< >>, SqrtU_Real3000, SqrtU_Real3010, SqrtMax, SqrtBig}

\* factory.getPool answers address(0), or a pool
NoPool == [exists |-> FALSE, sqrtPriceX96 |-> << >>]
PoolsOf(S) == {NoPool} \cup {[exists |-> TRUE, sqrtPriceX96 |-> x] : x \in S}

NoChain == [uni |-> NoPool, sushi |-> NoPool, wethPrice |-> 0, usdcPrice |-> 0]

InitLedger ==
  [bal |-> [t \in Tokens |->
             [a \in Accounts |-> IF a \in Spenders THEN 1000 ELSE 0]],
   allow |-> [t \in Tokens |-> [s \in Spenders |-> 0]],
   events |-> << >>]

\* emit: an event of the contract with its last argument
Emit(l, name, arg) == [l EXCEPT !.events = Append(@, [name |-> name, arg |-> arg])]

IdleTx == [pc |-> "idle", outcome |-> "-", caller |-> "-", amount |-> 0, premium |-> 0,
           uniPrice |-> << >>, sushiPrice |-> << >>, aavePrice |-> << >>,
           hasOpp |-> FALSE, totalArbsbps |-> << >>, buyOnUniFirst |-> FALSE,
           finalWethBal |-> 0]

\* what no step of the contract changes
conFixed == <<program, scanVars, triVars, owner, wethIsToken0, arbThresholdBps>>

\* line 88: the constructor has run, called by Deployer
ConInit ==
  /\ owner = Deployer
  /\ wethIsToken0 \in BOOLEAN
  /\ arbThresholdBps \in Thresholds
  /\ chain = NoChain
  /\ ledger = InitLedger
  /\ snap = InitLedger
  /\ tx = IdleTx
  /\ txCount = 0

\* line 240 with 1e18 for 1e36
Invert_Scale18(rawPrice) == UDiv(UPow(<<10>>, 18), rawPrice)

\* line 240: rawPrice = 1e36 / rawPrice
Invert(rawPrice) == UDiv(UPow(<<10>>, 36), rawPrice)

\* lines 220-251
_getPoolPrice(poolAddr, token0IsTokenA, tokenADec, tokenBDec) ==
  IF ~poolAddr.exists THEN << >>
  ELSE Eager(UShr(UMul(poolAddr.sqrtPriceX96, poolAddr.sqrtPriceX96), 192),
       LAMBDA rawPrice0 :
         IF ~token0IsTokenA /\ rawPrice0 = << >> THEN << >>
         ELSE Eager(IF ~token0IsTokenA THEN Invert(rawPrice0)
                                       ELSE rawPrice0,
              LAMBDA rawPrice :
                IF tokenBDec > tokenADec
                THEN UMul(rawPrice, UPow(<<10>>, tokenBDec - tokenADec))
                ELSE IF tokenADec > tokenBDec
                THEN UDiv(rawPrice, UPow(<<10>>, tokenADec - tokenBDec))
                ELSE rawPrice))

\* lines 256-264
_getAavePrice(wethPrice, usdcPrice) ==
  IF usdcPrice = 0 THEN << >> ELSE UDiv(BN(wethPrice), BN(usdcPrice))

\* lines 295-297
_absDiff(a, b) == IF BNCmp(a, b) > 0 THEN USub(a, b) ELSE USub(b, a)

\* line 212
HasOpp(totalArbsbps) == BNCmp(totalArbsbps, BN(arbThresholdBps)) >= 0

\* lines 193-214: the result for the prices read; the total is Panic if the
\* arithmetic reverts
checkArbOpportunity(uniPrice, sushiPrice, aavePrice) ==
  IF uniPrice = << >> \/ sushiPrice = << >>
  THEN [hasOpp |-> FALSE, totalArbsbps |-> << >>]
  ELSE IF aavePrice = << >>
  THEN [hasOpp |-> FALSE, totalArbsbps |-> << >>]
  ELSE
    Eager(IF BNCmp(uniPrice, sushiPrice) < 0 THEN uniPrice ELSE sushiPrice,
    LAMBDA cheapestDexPrice :
    Eager(IF BNCmp(uniPrice, sushiPrice) > 0 THEN uniPrice ELSE sushiPrice,
    LAMBDA expensiveDexPrice :
    Eager(UDiv(UMul(_absDiff(cheapestDexPrice, aavePrice), BN(10000)),
               cheapestDexPrice),
    LAMBDA BA_inBps :
    Eager(UDiv(UMul(USub(expensiveDexPrice, cheapestDexPrice), BN(10000)),
               cheapestDexPrice),
    LAMBDA DS_inBps :
    Eager(UAdd(BA_inBps, DS_inBps),
    LAMBDA totalArbsbps :
      IF totalArbsbps = Panic THEN [hasOpp |-> FALSE, totalArbsbps |-> Panic]
      ELSE [hasOpp |-> HasOpp(totalArbsbps), totalArbsbps |-> totalArbsbps])))))

\* an ERC-20 transfer of n from one account to another
Pay(l, token, from, to, n) ==
  [l EXCEPT !.bal[token][from] = @ - n, !.bal[token][to] = @ + n]

\* lines 269-290 with a router that fills the order: the approval, then the
\* router takes amountIn and pays amountOut to the contract
_swapExactInputSingle(l, tokenIn, tokenOut, amountIn, router, amountOut) ==
  LET approved == [l EXCEPT !.allow[tokenIn][router] = amountIn]
      taken == [Pay(approved, tokenIn, "bot", router, amountIn)
                  EXCEPT !.allow[tokenIn][router] = @ - amountIn]
  IN  Pay(taken, tokenOut, router, "bot", amountOut)

\* what a transaction leaves behind in tx
Ended(t, outcome) ==
  [IdleTx EXCEPT !.outcome = outcome, !.caller = t.caller, !.amount = t.amount,
                 !.premium = t.premium, !.finalWethBal = t.finalWethBal]

\* a revert that leaves the transfers and approvals made so far in place
Revert_KeepsEffects(t, reason) ==
  /\ tx' = Ended(t, reason)
  /\ ledger' = ledger
  /\ chain' = NoChain
  /\ UNCHANGED <<conFixed, snap, txCount>>

\* a require fails or a call reverts: the EVM undoes the whole transaction
Revert(t, reason) ==
  /\ tx' = Ended(t, reason)
  /\ ledger' = snap
  /\ chain' = NoChain
  /\ UNCHANGED <<conFixed, snap, txCount>>

\* lines 40-43 without the require
onlyOwner_Anyone(caller) == TRUE

\* lines 40-43: the modifier's test
onlyOwner(caller) == caller = owner

\* lines 120 and 40-43: executeFlashLoan(flashAmount) is called
ExecuteFlashLoan(caller, flashAmount) ==
  /\ program = "contract"
  /\ tx.pc = "idle"
  /\ txCount < MaxTxs
  /\ txCount' = txCount + 1
  /\ snap' = ledger
  /\ IF ~onlyOwner(caller)
     THEN tx' = [IdleTx EXCEPT !.outcome = "Reverted_NotOwner", !.caller = caller]
     ELSE tx' = [IdleTx EXCEPT !.pc = "checkUni", !.amount = flashAmount,
                               !.caller = caller]
  /\ UNCHANGED <<conFixed, chain, ledger>>

\* line 190: the Uniswap pool stands as uniPool in this transaction
CheckUni(uniPool) ==
  /\ program = "contract"
  /\ tx.pc = "checkUni"
  /\ \E uniPrice \in {_getPoolPrice(uniPool, wethIsToken0, wethDecimals, usdcDecimals)} :
       IF uniPrice = Panic
       THEN Revert(tx, "Reverted_Panic")
       ELSE /\ tx' = [tx EXCEPT !.uniPrice = uniPrice, !.pc = "checkSushi"]
            /\ chain' = [chain EXCEPT !.uni = uniPool]
            /\ UNCHANGED <<conFixed, ledger, snap, txCount>>

\* line 191: the Sushi pool stands as sushiPool
CheckSushi(sushiPool) ==
  /\ program = "contract"
  /\ tx.pc = "checkSushi"
  /\ \E sushiPrice \in {_getPoolPrice(sushiPool, wethIsToken0, wethDecimals, usdcDecimals)} :
       IF sushiPrice = Panic
       THEN Revert(tx, "Reverted_Panic")
       ELSE /\ tx' = [tx EXCEPT !.sushiPrice = sushiPrice, !.pc = "checkArb"]
            /\ chain' = [chain EXCEPT !.sushi = sushiPool]
            /\ UNCHANGED <<conFixed, ledger, snap, txCount>>

\* lines 193-214 and 122: checkArbOpportunity returns; the oracle answers
\* wethPrice and usdcPrice
CheckArbReturns(wethPrice, usdcPrice) ==
  /\ program = "contract"
  /\ tx.pc = "checkArb"
  /\ \E aavePrice \in {_getAavePrice(wethPrice, usdcPrice)} :
     \E res \in {checkArbOpportunity(tx.uniPrice, tx.sushiPrice, aavePrice)} :
       IF res.totalArbsbps = Panic
       THEN Revert(tx, "Reverted_Panic")
       ELSE /\ tx' = [tx EXCEPT !.aavePrice = aavePrice, !.hasOpp = res.hasOpp,
                                !.totalArbsbps = res.totalArbsbps, !.pc = "gate"]
            /\ chain' = [chain EXCEPT !.wethPrice = wethPrice, !.usdcPrice = usdcPrice]
            /\ UNCHANGED <<conFixed, ledger, snap, txCount>>

\* line 123 without the require
Gate_Open ==
  /\ program = "contract"
  /\ tx.pc = "gate"
  /\ tx' = [tx EXCEPT !.pc = "flashLoanSimple"]
  /\ UNCHANGED <<conFixed, chain, ledger, snap, txCount>>

\* line 123
Gate ==
  /\ program = "contract"
  /\ tx.pc = "gate"
  /\ IF tx.hasOpp
     THEN /\ tx' = [tx EXCEPT !.pc = "flashLoanSimple"]
          /\ UNCHANGED <<conFixed, chain, ledger, snap, txCount>>
     ELSE Revert(tx, "Reverted_NoArbitrage")

\* lines 145-147 with the test of the caller alone
Requires_CallerOnly(sender, initiator, asset) ==
  IF sender # "aave" THEN "Reverted_Caller" ELSE "ok"

\* lines 145-147: the requires of executeOperation, "ok" when all three pass
Requires(sender, initiator, asset) ==
  IF sender # "aave" THEN "Reverted_Caller"
  ELSE IF initiator # "bot" THEN "Reverted_Initiator"
  ELSE IF asset # "weth" THEN "Reverted_Asset"
  ELSE "ok"

\* lines 126-132 and 145-149: Aave lends the amount and calls executeOperation,
\* which emits FlashLoanExecuted
FlashLoanSimple(premium) ==
  /\ program = "contract"
  /\ tx.pc = "flashLoanSimple"
  /\ IF ledger.bal["weth"]["aave"] < tx.amount
     THEN Revert(tx, "Reverted_Aave")
     ELSE IF Requires("aave", "bot", "weth") # "ok"
     THEN Revert(tx, Requires("aave", "bot", "weth"))
     ELSE /\ ledger' = Emit(Pay(ledger, "weth", "aave", "bot", tx.amount),
                             "FlashLoanExecuted", premium)
          /\ tx' = [tx EXCEPT !.premium = premium, !.pc = "executeOperation"]
          /\ UNCHANGED <<conFixed, chain, snap, txCount>>

\* executeOperation called outside executeFlashLoan: by an account itself,
\* with arguments of its choice, or by the Aave pool for a flash loan that
\* another account requested with the contract as receiver, that account
\* being the initiator
ForeignCalls ==
  {c \in [sender : Accounts \ {"bot"}, initiator : {"bot", "other"}, asset : Tokens] :
     c.sender = "aave" => c.initiator # "bot"}

\* lines 138-149 in a transaction that executeFlashLoan did not begin; the
\* pool has sent the amount before it calls
ExecuteOperationCalled(c, amount, premium) ==
  /\ program = "contract"
  /\ tx.pc = "idle"
  /\ txCount < MaxTxs
  /\ txCount' = txCount + 1
  /\ snap' = ledger
  /\ IF Requires(c.sender, c.initiator, c.asset) = "ok"
     THEN /\ ledger' = Emit(Pay(ledger, c.asset, "aave", "bot", amount),
                            "FlashLoanExecuted", premium)
          /\ tx' = [IdleTx EXCEPT !.amount = amount, !.premium = premium,
                                  !.pc = "executeOperation", !.caller = c.sender]
     ELSE /\ tx' = [IdleTx EXCEPT !.outcome = Requires(c.sender, c.initiator, c.asset),
                                  !.caller = c.sender]
          /\ UNCHANGED ledger
  /\ UNCHANGED <<conFixed, chain>>

\* lines 152-155: the prices are read again and compared
buyOnUniFirst(uniPool, sushiPool) ==
  BNCmp(_getPoolPrice(uniPool, wethIsToken0, wethDecimals, usdcDecimals),
        _getPoolPrice(sushiPool, wethIsToken0, wethDecimals, usdcDecimals)) < 0

\* lines 152-159 or 165: the first swap, WETH to USDC
FirstSwap(filled, usdcOut) ==
  /\ program = "contract"
  /\ tx.pc = "executeOperation"
  /\ IF ~filled
     THEN Revert(tx, "Reverted_Swap")
     ELSE \E buy \in {buyOnUniFirst(chain.uni, chain.sushi)} :
          /\ ledger' = _swapExactInputSingle(ledger, "weth", "usdc", tx.amount,
                         IF buy THEN "uni" ELSE "sushi", usdcOut)
          /\ tx' = [tx EXCEPT !.buyOnUniFirst = buy, !.pc = "secondSwap"]
          /\ UNCHANGED <<conFixed, chain, snap, txCount>>

\* lines 162 and 168 with the router of the first swap
secondRouter_Same(buy) == IF buy THEN "uni" ELSE "sushi"

\* lines 162 and 168: the router of the second swap
secondRouter(buy) == IF buy THEN "sushi" ELSE "uni"

\* lines 161-162 or 167-168: the second swap, all the USDC back to WETH
SecondSwap(filled, wethOut) ==
  /\ program = "contract"
  /\ tx.pc = "secondSwap"
  /\ IF ~filled
     THEN Revert(tx, "Reverted_Swap")
     ELSE /\ ledger' = _swapExactInputSingle(ledger, "usdc", "weth",
                         ledger.bal["usdc"]["bot"],
                         secondRouter(tx.buyOnUniFirst), wethOut)
          /\ tx' = [tx EXCEPT !.pc = "profitCheck"]
          /\ UNCHANGED <<conFixed, chain, snap, txCount>>

\* line 174 without the inequality being strict
MustProfit_OrEqual(finalWethBal, totalRepay) == finalWethBal >= totalRepay

\* line 174
MustProfit(finalWethBal, totalRepay) == finalWethBal > totalRepay

\* lines 172-183
ProfitCheck ==
  /\ program = "contract"
  /\ tx.pc = "profitCheck"
  /\ LET finalWethBal == ledger.bal["weth"]["bot"]
         totalRepay == tx.amount + tx.premium
     IN  IF MustProfit(finalWethBal, totalRepay)
         THEN /\ ledger' = Emit([Emit(ledger, "ArbitrageProfit", finalWethBal - totalRepay)
                                   EXCEPT !.allow["weth"]["aave"] = totalRepay],
                                 "LoanRepaid", totalRepay)
              /\ tx' = [tx EXCEPT !.finalWethBal = finalWethBal, !.pc = "repay"]
              /\ UNCHANGED <<conFixed, chain, snap, txCount>>
         ELSE Revert([tx EXCEPT !.finalWethBal = finalWethBal], "Aborted_NoProfit")

\* executeOperation has returned true: Aave takes amount + premium
Repay ==
  /\ program = "contract"
  /\ tx.pc = "repay"
  /\ LET totalRepay == tx.amount + tx.premium
     IN  ledger' = [Pay(ledger, "weth", "bot", "aave", totalRepay)
                      EXCEPT !.allow["weth"]["aave"] = @ - totalRepay]
  /\ tx' = Ended(tx, "Repaid")
  /\ chain' = NoChain
  /\ UNCHANGED <<conFixed, snap, txCount>>

\* amounts asked of partialWithdraw
WithdrawAmounts == {0, 1, 5}

\* lines 302-306: partialWithdraw(token, amount) is called
PartialWithdraw(caller, token, amount) ==
  /\ program = "contract"
  /\ tx.pc = "idle"
  /\ txCount < MaxTxs
  /\ txCount' = txCount + 1
  /\ snap' = ledger
  /\ LET bal == ledger.bal[token]["bot"]
     IN  IF ~onlyOwner(caller)
         THEN /\ tx' = [IdleTx EXCEPT !.outcome = "Reverted_NotOwner", !.caller = caller]
              /\ UNCHANGED ledger
         ELSE IF ~(amount > 0 /\ amount <= bal)
         THEN /\ tx' = [IdleTx EXCEPT !.outcome = "Reverted_InvalidAmount",
                                      !.caller = caller]
              /\ UNCHANGED ledger
         ELSE /\ tx' = [IdleTx EXCEPT !.outcome = "Withdrawn", !.caller = caller]
              /\ ledger' = Pay(ledger, token, "bot", owner, amount)
  /\ UNCHANGED <<conFixed, chain>>

\* lines 308-312: withdrawAll(token) is called
WithdrawAll(caller, token) ==
  /\ program = "contract"
  /\ tx.pc = "idle"
  /\ txCount < MaxTxs
  /\ txCount' = txCount + 1
  /\ snap' = ledger
  /\ LET bal == ledger.bal[token]["bot"]
     IN  IF ~onlyOwner(caller)
         THEN /\ tx' = [IdleTx EXCEPT !.outcome = "Reverted_NotOwner", !.caller = caller]
              /\ UNCHANGED ledger
         ELSE IF ~(bal > 0)
         THEN /\ tx' = [IdleTx EXCEPT !.outcome = "Reverted_NoTokens", !.caller = caller]
              /\ UNCHANGED ledger
         ELSE /\ tx' = [IdleTx EXCEPT !.outcome = "Withdrawn", !.caller = caller]
              /\ ledger' = Pay(ledger, token, "bot", owner, bal)
  /\ UNCHANGED <<conFixed, chain>>

ConNext ==
  \/ \E caller \in Callers, flashAmount \in FlashAmounts :
       ExecuteFlashLoan(caller, flashAmount)
  \/ \E uniPool \in PoolsOf(SqrtPrices) : CheckUni(uniPool)
  \/ \E sushiPool \in PoolsOf(SqrtPrices) : CheckSushi(sushiPool)
  \/ \E wethPrice \in WethOraclePrices, usdcPrice \in UsdcOraclePrices :
       CheckArbReturns(wethPrice, usdcPrice)
  \/ Gate
  \/ \E premium \in Premiums : FlashLoanSimple(premium)
  \/ \E c \in ForeignCalls, amount \in FlashAmounts, premium \in Premiums :
       ExecuteOperationCalled(c, amount, premium)
  \/ \E filled \in BOOLEAN, usdcOut \in UsdcOuts : FirstSwap(filled, usdcOut)
  \/ \E filled \in BOOLEAN, wethOut \in WethOuts : SecondSwap(filled, wethOut)
  \/ ProfitCheck
  \/ Repay
  \/ \E caller \in Callers, token \in Tokens, amount \in WithdrawAmounts :
       PartialWithdraw(caller, token, amount)
  \/ \E caller \in Callers, token \in Tokens : WithdrawAll(caller, token)

\* the contract is not deployed
ConIdle ==
  /\ owner = Deployer
  /\ wethIsToken0 = TRUE
  /\ arbThresholdBps = 11
  /\ chain = NoChain
  /\ ledger = InitLedger
  /\ snap = InitLedger
  /\ tx = IdleTx
  /\ txCount = 0

(***************************************************************************)
(* TriFlash (unnamed/part_000, lines 38-161)                              *)
(* The router is the contract given to the constructor.  TriFlash never   *)
(* approves it, so a call of exactInputSingle that does not revert has    *)
(* taken nothing from TriFlash; it has paid out what it returns.          *)
(***************************************************************************)
TriTokens == {"weth", "cbbtc", "usdc"}
TriAccounts == {"tri", "pool", "router", "owner", "other"}

\* the pool's fee0, and what the first two swaps pay out
FlashFees == {1}
LegOuts == {7}

InitTriLedger ==
  [t \in TriTokens |->
     [a \in TriAccounts |-> IF a \in {"pool", "router"} THEN 1000 ELSE 0]]

IdleTri == [pc |-> "idle", outcome |-> "-", amtWeth |-> 0, fee0 |-> 0,
            payer |-> "-", amountIn |-> 0, wethFinal |-> 0]

TriInit ==
  /\ tri = IdleTri
  /\ triLedger = InitTriLedger
  /\ triSnap = InitTriLedger
  /\ triCount = 0

\* TriFlash is not deployed
TriIdle == TriInit

triFixed == <<program, scanVars, conVars>>

TriPay(l, token, from, to, n) ==
  [l EXCEPT ![token][from] = @ - n, ![token][to] = @ + n]

TriEnded(outcome) ==
  [IdleTri EXCEPT !.outcome = outcome, !.amtWeth = tri.amtWeth, !.fee0 = tri.fee0,
                  !.payer = tri.payer, !.wethFinal = tri.wethFinal]

\* a require fails or a call reverts: the EVM undoes the whole transaction
TriRevert(reason) ==
  /\ tri' = TriEnded(reason)
  /\ triLedger' = triSnap
  /\ UNCHANGED <<triFixed, triSnap, triCount>>

\* lines 79-86 and 94-100: initFlash(amountWeth) by payer; the pool lends the
\* WETH and calls uniswapV3FlashCallback(fee0, 0, data)
InitFlash(payer, amountWeth, fee0) ==
  /\ program = "triflash"
  /\ tri.pc = "idle"
  /\ triCount < MaxTxs
  /\ triCount' = triCount + 1
  /\ triSnap' = triLedger
  /\ IF triLedger["weth"]["pool"] < amountWeth
     THEN /\ tri' = [IdleTri EXCEPT !.outcome = "Reverted_Pool"]
          /\ UNCHANGED triLedger
     ELSE /\ tri' = [IdleTri EXCEPT !.pc = "swap1", !.amtWeth = amountWeth,
                                    !.fee0 = fee0, !.payer = payer,
                                    !.amountIn = amountWeth]
          /\ triLedger' = TriPay(triLedger, "weth", "pool", "tri", amountWeth)
  /\ UNCHANGED triFixed

\* lines 103-142: one of the three calls of router.exactInputSingle
Swap(filled, amountOut) ==
  /\ program = "triflash"
  /\ tri.pc \in {"swap1", "swap2", "swap3"}
  /\ amountOut \in (IF tri.pc = "swap3" THEN WethOuts ELSE LegOuts)
  /\ IF ~filled
     THEN TriRevert("Reverted_Swap")
     ELSE LET tokenOut == CASE tri.pc = "swap1" -> "cbbtc"
                            [] tri.pc = "swap2" -> "usdc"
                            [] tri.pc = "swap3" -> "weth"
              next == CASE tri.pc = "swap1" -> "swap2"
                        [] tri.pc = "swap2" -> "swap3"
                        [] tri.pc = "swap3" -> "settle"
          IN  /\ triLedger' = TriPay(triLedger, tokenOut, "router", "tri", amountOut)
              /\ tri' = [tri EXCEPT !.pc = next, !.amountIn = amountOut,
                                    !.wethFinal = IF tri.pc = "swap3"
                                                  THEN amountOut ELSE @]
              /\ UNCHANGED <<triFixed, triSnap, triCount>>

\* line 145
NoProfitCheck(wethFinal, amountOwed) == wethFinal > amountOwed

\* lines 144-151 and the pool's check that it has been repaid
Settle ==
  /\ program = "triflash"
  /\ tri.pc = "settle"
  /\ LET amountOwed == tri.amtWeth + tri.fee0
     IN  IF NoProfitCheck(tri.wethFinal, amountOwed)
         THEN /\ triLedger' =
                   TriPay(TriPay(triLedger, "weth", "tri", "pool", amountOwed),
                          "weth", "tri", tri.payer, tri.wethFinal - amountOwed)
              /\ tri' = TriEnded("Repaid")
              /\ UNCHANGED <<triFixed, triSnap, triCount>>
         ELSE TriRevert("Aborted_NoProfit")

TriNext ==
  \/ \E payer \in Callers, amountWeth \in FlashAmounts, fee0 \in FlashFees :
       InitFlash(payer, amountWeth, fee0)
  \/ \E filled \in BOOLEAN, amountOut \in WethOuts \cup LegOuts : Swap(filled, amountOut)
  \/ Settle

Init ==
  \/ program = "scanner" /\ ScanInit /\ ConIdle /\ TriIdle
  \/ program = "contract" /\ ScanIdle /\ ConInit /\ TriIdle
  \/ program = "triflash" /\ ScanIdle /\ ConIdle /\ TriInit

Next == ScanNext \/ ConNext \/ TriNext

Spec == Init /\ [][Next]_vars

\* every awaited call of a running cycle settles, with a value or an exception
FairSpec == Spec /\ WF_vars(\E b \in Blocks : CycleStep(b))

(***************************************************************************)
(* Claims about the scanner's guard                                        *)
(***************************************************************************)
RunningCycles == {b \in Blocks : Running(b)}

\* C3: under every interleaving of block notifications with the completions
\* of the awaited reads and transaction waits, at most one call of
\* handleBlock is between setting processingBlock and resetting it, and the
\* guard is set exactly while such a call exists.
C3_MutualExclusion ==
  /\ Cardinality(RunningCycles) <= 1
  /\ processingBlock <=> RunningCycles # {}

\* a notification has arrived while a cycle was in the middle of its reads
C3_Witness ==
  \E b1, b2 \in Blocks :
    /\ b1 < b2
    /\ cyc[b1].pc = "getAssetPriceB"
    /\ cyc[b2].pc = "dropped"

\* C4: a notification that arrives while the guard is set changes nothing
\* but the notification count: no read is issued, no line is logged, the
\* counters, the guard and the cycle that runs stay as they are, and the
\* dropped call never runs later.
C4_DroppedHasNoEffect ==
  [][ /\ (blockNumber' # blockNumber /\ processingBlock) =>
           /\ blockNumber' = blockNumber + 1
           /\ cyc' = [cyc EXCEPT ![blockNumber'].pc = "dropped"]
           /\ UNCHANGED <<processingBlock, opportunityCount, flashloanCount,
                          lastEval, log>>
      /\ \A b \in Blocks : cyc[b].pc = "dropped" => cyc'[b].pc = "dropped"
    ]_vars

\* a dropped notification, after which the running cycle has ended: the
\* dropped one is still not evaluated
C4_Witness ==
  \E b1, b2 \in Blocks :
    /\ cyc[b1].pc = "done"
    /\ cyc[b2].pc = "dropped"
    /\ ~processingBlock

totalRepay == tx.amount + tx.premium
amountOwed == tri.amtWeth + tri.fee0

\* C1: an execution is Repaid only if the balance of the borrowed asset after
\* the last swap was strictly greater than the amount borrowed plus the fee;
\* with that balance equal to or less than amount plus fee, the step that
\* follows the last swap does not go on to the repayment.
C1_MustProfit ==
  /\ [](/\ tx.pc = "repay" =>
             /\ ledger.bal["weth"]["bot"] > totalRepay
             /\ tx.finalWethBal = ledger.bal["weth"]["bot"]
        /\ tx.outcome = "Repaid" => tx.finalWethBal > totalRepay
        /\ tri.outcome = "Repaid" => tri.wethFinal > amountOwed)
  /\ [][ /\ (tx.pc = "profitCheck" /\ ledger.bal["weth"]["bot"] <= totalRepay)
              => (tx'.pc = "idle" /\ tx'.outcome # "Repaid")
         /\ tx'.outcome = "Repaid" => (tx.pc = "repay" \/ tx.outcome = "Repaid")
         /\ (tri.pc = "settle" /\ tri.wethFinal <= amountOwed)
              => tri'.outcome # "Repaid"
         /\ tri'.outcome = "Repaid" => (tri.pc = "settle" \/ tri.outcome = "Repaid")
       ]_vars

\* a transaction has ended at the require of line 174 with the final balance
\* exactly at amount plus premium
C1_Witness ==
  /\ tx.outcome = "Aborted_NoProfit"
  /\ tx.amount > 0
  /\ tx.finalWethBal = totalRepay

\* C2: an execution whose last swap leaves the final balance at or below the
\* amount borrowed plus the fee ends Aborted_NoProfit, and every balance and
\* every allowance is then what it was when the transaction began: nothing of
\* the loan or of the swaps remains.
C2_AllOrNothing ==
  [][ /\ txCount' # txCount => snap' = ledger
      /\ txCount' = txCount => snap' = snap
      /\ (tx.pc = "profitCheck" /\ ledger.bal["weth"]["bot"] <= totalRepay)
           => /\ tx'.outcome = "Aborted_NoProfit"
              /\ tx'.pc = "idle"
              /\ \A t \in Tokens :
                   /\ \A a \in Accounts : ledger'.bal[t][a] = snap.bal[t][a]
                   /\ \A sp \in Spenders : ledger'.allow[t][sp] = snap.allow[t][sp]
      /\ triCount' # triCount => triSnap' = triLedger
      /\ triCount' = triCount => triSnap' = triSnap
      /\ (tri.pc = "settle" /\ tri.wethFinal <= amountOwed)
           => /\ tri'.outcome = "Aborted_NoProfit"
              /\ \A t \in TriTokens, a \in TriAccounts :
                   triLedger'[t][a] = triSnap[t][a]
    ]_vars

\* a second transaction has aborted below amount plus premium after a first
\* one changed the balances: they are those the second one began with
C2_Witness ==
  /\ txCount = 2
  /\ tx.outcome = "Aborted_NoProfit"
  /\ tx.finalWethBal < totalRepay
  /\ ledger # InitLedger
  /\ ledger = snap

(***************************************************************************)
(* Claims about the evaluation and the trigger                             *)
(***************************************************************************)
\* the threshold as an integer, and "x >= t" for a JavaScript number x = n/d * 10^k
ThresholdBps == IF arbEnv = << >> THEN 11 ELSE arbEnv[1]
AtLeast(x, t) ==
  CASE x.cls = "inf" -> x.n > 0
    [] x.cls = "fin" -> IF x.k >= 0 THEN x.n * Pow10(x.k) >= t * x.d
                                    ELSE x.n >= t * x.d * Pow10(-x.k)
    [] OTHER -> FALSE
\* "x >= t" for a uint256 x and t < 10000
AtLeastU(x, t) == Len(x) > 1 \/ (Len(x) = 1 /\ x[1] >= t)

\* C6: a cycle whose venue and oracle prices are usable submits an execution
\* if and only if its total score is at least the threshold, the threshold
\* itself included; the contract goes on to the flash loan if and only if its
\* total is at least arbThresholdBps.
C6_ThresholdInclusive ==
  [][ /\ \A b \in Blocks :
           /\ (cyc[b].pc = "getAssetPriceB" /\ lastEval'.cycle = b)
                => /\ AtLeast(lastEval'.totalArbsbps, ThresholdBps)
                        <=> (cyc'[b].pc = "executeFlashLoan")
                   /\ AtLeast(lastEval'.totalArbsbps, ThresholdBps)
                        <=> (flashloanCount' = flashloanCount + 1)
                   /\ AtLeast(lastEval'.totalArbsbps, ThresholdBps)
                        <=> (lastEval'.action = "FLASHLOAN_TRIGGERED")
           /\ (cyc'[b].pc = "executeFlashLoan" /\ cyc[b].pc # "executeFlashLoan")
                => (cyc[b].pc = "getAssetPriceB" /\ lastEval'.cycle = b)
      /\ flashloanCount' # flashloanCount
           => \E b \in Blocks : cyc[b].pc = "getAssetPriceB" /\ lastEval'.cycle = b
      /\ tx.pc = "gate"
           => /\ tx.hasOpp <=> AtLeastU(tx.totalArbsbps, arbThresholdBps)
              /\ AtLeastU(tx.totalArbsbps, arbThresholdBps)
                   <=> (tx'.pc = "flashLoanSimple")
              /\ ~AtLeastU(tx.totalArbsbps, arbThresholdBps)
                   => tx'.outcome = "Reverted_NoArbitrage"
      /\ (tx'.pc = "flashLoanSimple" /\ tx.pc # "flashLoanSimple") => tx.pc = "gate"
    ]_vars

\* a cycle whose total is exactly the threshold of 50 has submitted
C6_Witness ==
  \E b \in Blocks :
    /\ arbEnv = <<50>>
    /\ lastEval.cycle = b
    /\ lastEval.totalArbsbps = JSInt(50)
    /\ cyc[b].pc = "executeFlashLoan"
    /\ flashloanCount = 1

\* the venue prices of an evaluation, in order
cheapestOf(e) == JSMin(e.uniPrice, e.sushiPrice)
expensiveOf(e) == JSMax(e.uniPrice, e.sushiPrice)
\* (cheaper - oracle) / cheaper * 10000 + (costlier - cheaper) / cheaper * 10000
SignedTotal(e) ==
  JSAdd(JSMul(JSDiv(JSSub(cheapestOf(e), e.aavePrice), cheapestOf(e)), JSInt(10000)),
        JSMul(JSDiv(JSSub(expensiveOf(e), cheapestOf(e)), cheapestOf(e)), JSInt(10000)))
\* the same for the contract's prices, times the cheaper price: the uint256
\* pair <<negative, magnitude>> of (costlier - oracle) * 10000
cheapestDex == IF BNCmp(tx.uniPrice, tx.sushiPrice) < 0 THEN tx.uniPrice ELSE tx.sushiPrice
expensiveDex == IF BNCmp(tx.uniPrice, tx.sushiPrice) > 0 THEN tx.uniPrice ELSE tx.sushiPrice
OraclePriced == tx.uniPrice # << >> /\ tx.sushiPrice # << >> /\ tx.aavePrice # << >>
\* signed total < t
SignedTotalBelowU(t) ==
  \/ BNCmp(expensiveDex, tx.aavePrice) < 0
  \/ BNCmp(BNMul(BNSub(expensiveDex, tx.aavePrice), BN(10000)),
           BNMul(BN(t), cheapestDex)) < 0

\* C7: the trigger decision uses the signed total: when the oracle price is so
\* far above the cheapest venue price that borrowing advantage plus spread is
\* below the threshold, no execution is triggered, in the scanner's evaluation
\* and in the contract's checkArbOpportunity (venues 3000 and 3010, oracle
\* 3050, threshold 11: no trigger).
C7_SignedTotalDecides ==
  /\ (lastEval.cycle # 0 /\ ~AtLeast(SignedTotal(lastEval), ThresholdBps))
       => lastEval.action = "NO_FLASHLOAN"
  /\ (tx.pc = "gate" /\ OraclePriced /\ SignedTotalBelowU(arbThresholdBps))
       => ~tx.hasOpp

\* C8: for usable venue and oracle prices, with cheaper the least and
\* costlier the greatest venue price, the evaluator's borrowing advantage is
\* (cheaper - oracle) / cheaper * 10000, its spread is
\* (costlier - cheaper) / cheaper * 10000 and its total is their sum, 3000,
\* 3010 and 2995 giving a total of 50; the contract's total is that sum up to
\* the truncation of its two integer divisions.
C8_MetricFormulas ==
  /\ (lastEval.cycle # 0 /\ lastEval.totalArbsbps.cls = "fin")
       => /\ JSEq(JSMul(lastEval.BApercent, JSInt(100)),
                  JSMul(JSDiv(JSSub(cheapestOf(lastEval), lastEval.aavePrice),
                              cheapestOf(lastEval)), JSInt(10000)))
          /\ JSEq(JSMul(lastEval.DSpercent, JSInt(100)),
                  JSMul(JSDiv(JSSub(expensiveOf(lastEval), cheapestOf(lastEval)),
                              cheapestOf(lastEval)), JSInt(10000)))
          /\ JSEq(lastEval.totalArbsbps, SignedTotal(lastEval))
  /\ (lastEval.cycle # 0 /\ lastEval.uniPrice = JSInt(3000)
        /\ lastEval.sushiPrice = JSInt(3010) /\ lastEval.aavePrice = JSInt(2995))
       => lastEval.totalArbsbps = JSInt(50)
  /\ (tx.pc = "gate" /\ OraclePriced)
       => /\ BNCmp(expensiveDex, tx.aavePrice) >= 0
          /\ BNCmp(BNMul(tx.totalArbsbps, cheapestDex),
                   BNMul(BNSub(expensiveDex, tx.aavePrice), BN(10000))) <= 0
          /\ BNCmp(BNMul(BNSub(expensiveDex, tx.aavePrice), BN(10000)),
                   BNMul(BNAdd(tx.totalArbsbps, BN(2)), cheapestDex)) < 0

\* what a venue read gives the evaluator when the venue has no pool or its
\* price is zero
Unusable(price) == price = Null \/ price = JSInt(0)
OraclePcs == {"getPriceOracle", "getAssetPriceA", "getAssetPriceB"}

\* C9: a cycle in which a venue has no pool or a zero price goes no further
\* than the venue reads: it reads no oracle, produces no metrics and submits
\* no execution; an evaluation and a submission come only out of the oracle
\* reads of a cycle with two usable prices.  On chain, checkArbOpportunity
\* returns (false, 0) when either venue price is 0, and the transaction
\* reverts.
C9_FewerThanTwoPrices ==
  /\ [](/\ \A b \in Blocks :
             cyc[b].pc \in OraclePcs
               => ~Unusable(cyc[b].uniPrice) /\ ~Unusable(cyc[b].sushiPrice)
        /\ lastEval.cycle # 0
             => ~Unusable(lastEval.uniPrice) /\ ~Unusable(lastEval.sushiPrice)
        /\ (tx.pc = "gate" /\ (tx.uniPrice = << >> \/ tx.sushiPrice = << >>))
             => (~tx.hasOpp /\ tx.totalArbsbps = << >>))
  /\ [][ /\ \A b \in Blocks :
              /\ (cyc[b].venue = "sushi" /\ Unusable(cyc[b].uniPrice))
                   => /\ cyc'[b].pc \notin OraclePcs \cup {"executeFlashLoan", "wait"}
                      /\ UNCHANGED <<opportunityCount, flashloanCount, lastEval>>
              /\ (cyc'[b].pc = "executeFlashLoan" /\ cyc[b].pc # "executeFlashLoan")
                   => cyc[b].pc = "getAssetPriceB"
         /\ (opportunityCount' # opportunityCount \/ flashloanCount' # flashloanCount
               \/ lastEval'.cycle \notin {0, lastEval.cycle})
              => \E b \in Blocks : cyc[b].pc = "getAssetPriceB"
         /\ (tx.pc = "checkArb" /\ (tx.uniPrice = << >> \/ tx.sushiPrice = << >>))
              => (tx'.pc = "gate" /\ ~tx'.hasOpp /\ tx'.totalArbsbps = << >>)
         /\ (tx.pc = "gate" /\ (tx.uniPrice = << >> \/ tx.sushiPrice = << >>))
              => (tx'.outcome = "Reverted_NoArbitrage" /\ ledger' = snap)
       ]_vars

\* checkArbOpportunity has returned (false, 0) for a Uniswap price of 0 and a
\* Sushi price that is not 0
C9_Witness ==
  /\ tx.pc = "gate"
  /\ tx.uniPrice = << >>
  /\ tx.sushiPrice # << >>
  /\ ~tx.hasOpp
  /\ tx.totalArbsbps = << >>

\* C10: when the two venue prices are equal no execution is triggered,
\* whatever the oracle price and the threshold.
C10_TiesNeverTrigger ==
  /\ (lastEval.cycle # 0 /\ JSEq(lastEval.uniPrice, lastEval.sushiPrice))
       => lastEval.action = "NO_FLASHLOAN"
  /\ (tx.pc = "gate" /\ tx.uniPrice # << >> /\ tx.uniPrice = tx.sushiPrice)
       => ~tx.hasOpp

(***************************************************************************)
(* Claims about failures of the oracle and of the venues                   *)
(***************************************************************************)
Ended_(b) == cyc[b].pc \in {"done", "rejected"}

\* C11: when an oracle read fails, the oracle's address is zero or a quoted
\* price is not positive, the cycle leaves the oracle reads with no metrics
\* and no submission, releases the guard, and the next notification starts a
\* cycle; metrics exist only for a positive finite oracle ratio.  On chain an
\* oracle ratio of 0 makes checkArbOpportunity return (false, 0).
C11_OracleUnavailable ==
  /\ [](/\ lastEval.cycle # 0
             => (lastEval.aavePrice.cls = "fin" /\ lastEval.aavePrice.n > 0)
        /\ (tx.pc = "gate" /\ tx.aavePrice = << >>)
             => (~tx.hasOpp /\ tx.totalArbsbps = << >>))
  /\ [][ /\ \A b \in Blocks :
              /\ (cyc[b].pc = "getAssetPriceB" /\ cyc[b].tmp = JSInt(0))
                   => lastEval'.cycle # b
              /\ (cyc[b].pc \in OraclePcs /\ cyc'[b].pc \notin OraclePcs
                    /\ lastEval'.cycle # b)
                   => /\ cyc'[b].pc \in {"done", "rejected"}
                      /\ ~processingBlock'
                      /\ UNCHANGED <<opportunityCount, flashloanCount, lastEval>>
              /\ (Ended_(b) /\ ~processingBlock /\ blockNumber' # blockNumber)
                   => (cyc'[blockNumber'].pc = "getPool" /\ processingBlock')
         /\ (tx.pc = "gate" /\ tx.aavePrice = << >>)
              => tx'.outcome = "Reverted_NoArbitrage"
       ]_vars

\* checkArbOpportunity has returned (false, 0) for two venue prices that are
\* not 0 and an oracle ratio of 0
C11_Witness ==
  /\ tx.pc = "gate"
  /\ tx.uniPrice # << >>
  /\ tx.sushiPrice # << >>
  /\ tx.aavePrice = << >>
  /\ ~tx.hasOpp

(***************************************************************************)
(* Claims about what a successful execution pays                           *)
(***************************************************************************)
\* the step that ends a transaction Repaid
RepaidStep == tx.pc = "repay" /\ tx'.outcome = "Repaid"
TriRepaidStep == tri.pc = "settle" /\ tri'.outcome = "Repaid"

\* C12: a Repaid execution returns exactly the amount borrowed plus the fee
\* to the lender and delivers exactly the final balance less that sum to the
\* profit recipient (the owner of FlashLoanArbitrageBot23, the payer of
\* TriFlash); that much and no more leaves the executing contract.
C12_RepayAndDeliverProfit ==
  [][ /\ RepaidStep
           => /\ ledger'.bal["weth"]["aave"] = ledger.bal["weth"]["aave"] + totalRepay
              /\ ledger'.bal["weth"]["owner"] =
                   ledger.bal["weth"]["owner"] + (tx.finalWethBal - totalRepay)
              /\ ledger'.bal["weth"]["bot"] = ledger.bal["weth"]["bot"] - tx.finalWethBal
      /\ TriRepaidStep
           => /\ triLedger'["weth"]["pool"] = triLedger["weth"]["pool"] + amountOwed
              /\ triLedger'["weth"][tri.payer] =
                   triLedger["weth"][tri.payer] + (tri.wethFinal - amountOwed)
              /\ triLedger'["weth"]["tri"] = triLedger["weth"]["tri"] - tri.wethFinal
    ]_vars

(***************************************************************************)
(* Claims about the cycles of the scanner                                  *)
(***************************************************************************)
\* the records of arbitrage_log.txt that cycle b appended
RecordsOf(b) == {i \in DOMAIN log : log[i].cycle = b}

\* C13: a cycle that has acquired the guard appends exactly one record to the
\* log, and has appended it when the guard is released: a cycle that has
\* ended has one record, neither none nor two.
C13_OneRecordPerCycle ==
  \A b \in Blocks :
    /\ Ended_(b) => Cardinality(RecordsOf(b)) = 1
    /\ Cardinality(RecordsOf(b)) <= 1

\* C14: at most one executeFlashLoan transaction of the scanner is unresolved
\* (broadcast and neither mined nor failed) at any time, also after a send or
\* a wait has rejected and later notifications have arrived.
C14_OneExecutionInFlight == unresolved <= 1

\* C15: a cycle submits executeFlashLoan at most once: it enters the
\* submission only from its own evaluation, with prices it has read itself
\* and a total at or above the threshold, and after the send or the wait it
\* only ends; a cycle that has ended never runs again.
C15_NoRetryWithinCycle ==
  [][ \A b \in Blocks :
        /\ (cyc'[b].pc = "executeFlashLoan" /\ cyc[b].pc # "executeFlashLoan")
             => /\ cyc[b].pc = "getAssetPriceB"
                /\ lastEval.cycle = 0
                /\ lastEval'.cycle = b
                /\ lastEval'.uniPrice = cyc[b].uniPrice
                /\ lastEval'.sushiPrice = cyc[b].sushiPrice
                /\ AtLeast(lastEval'.totalArbsbps, ThresholdBps)
                /\ flashloanCount' = flashloanCount + 1
        /\ cyc[b].pc = "executeFlashLoan"
             => \/ cyc'[b].pc \in {"wait", "done", "rejected"}
                \/ cyc'[b].pc = "executeFlashLoan" /\ log' = log
        /\ cyc[b].pc = "wait" => cyc'[b].pc \in {"wait", "done", "rejected"}
        /\ Ended_(b) => cyc'[b] = cyc[b]
        /\ flashloanCount' # flashloanCount
             => \E c \in Blocks : cyc[c].pc # "executeFlashLoan"
                                    /\ cyc'[c].pc = "executeFlashLoan"
    ]_vars

\* the submission of one cycle has failed and been logged, the cycle has
\* ended, and the next cycle has come to a submission of its own
C15_Witness ==
  \E b1, b2 \in Blocks :
    /\ b1 < b2
    /\ cyc[b1].pc = "done"
    /\ \E i \in RecordsOf(b1) : log[i].kind = "tx_error"
    /\ cyc[b2].pc = "executeFlashLoan"
    /\ flashloanCount = 2

VenuePcs == {"getPool", "slot0", "token0", "token1"}

\* C16: a venue without a pool, or a pool query that rejects, ends the cycle
\* with no price for the venue: the cycle evaluates nothing and submits
\* nothing, writes at most the one line that tells of it, releases the guard,
\* and the next notification is evaluated.
C16_VenueUnavailableNotFatal ==
  [][ /\ \A b \in Blocks :
           /\ (cyc[b].pc \in VenuePcs /\ cyc'[b].pc \notin VenuePcs)
                => \/ /\ cyc'[b].pc = "getPriceOracle"
                      /\ cyc'[b].uniPrice # Null /\ cyc'[b].sushiPrice # Null
                      /\ UNCHANGED <<processingBlock, log>>
                   \/ /\ cyc'[b].pc \in {"done", "rejected"}
                      /\ ~processingBlock'
                      /\ \/ log' = log
                         \/ \E k \in {"nodata", "monitor_error"} :
                              log' = Append(log, Line(b, k, "-"))
           /\ cyc[b].pc \in VenuePcs
                => /\ UNCHANGED <<opportunityCount, flashloanCount, lastEval>>
                   /\ unresolved' <= unresolved
      /\ (blockNumber' # blockNumber /\ ~processingBlock)
           => (cyc'[blockNumber'].pc = "getPool" /\ processingBlock')
    ]_vars

\* a pool query of the first cycle has rejected and been logged, and the
\* second notification is being evaluated
C16_Witness ==
  \E b1, b2 \in Blocks :
    /\ b1 < b2
    /\ cyc[b1].pc = "done"
    /\ log = <<Line(b1, "monitor_error", "-")>>
    /\ cyc[b2].pc = "getPriceOracle"
    /\ opportunityCount = 0

\* C17: a pool whose current price is outside its active range gives the
\* cycle no price: the read of that venue returns no number, the cycle does
\* not trigger on it, and the cycle ends as every cycle does.
C17_OutOfRangeUnavailable ==
  [][ \A b \in Blocks :
        /\ (cyc[b].pc = "token1" /\ cyc[b].outOfRange /\ cyc'[b].pc # "token1")
             => cyc'[b].pc \in {"getPool", "done", "rejected"}
        /\ (cyc[b].pc = "token1" /\ cyc[b].outOfRange /\ cyc'[b].pc = "getPool")
             => cyc'[b].uniPrice = Null
        /\ cyc[b].outOfRange
             => cyc'[b].pc \notin OraclePcs \cup {"executeFlashLoan", "wait"}
    ]_vars

\* C18: when the pool's token order calls for 1 / rawPrice and the raw price
\* is 0, the read gives the venue no price (no number comes out of the
\* division), and a cycle that has read such a venue does not trigger; the
\* contract's _getPoolPrice returns 0 for it.
C18_ZeroPriceInversionGuard ==
  [][ /\ \A b \in Blocks :
           /\ (cyc[b].pc = "token1" /\ usdcIsToken0 /\ cyc[b].tmp = JSInt(0)
                 /\ cyc'[b].pc # "token1")
                => /\ cyc'[b].pc \in {"getPool", "done", "rejected"}
                   /\ cyc'[b].pc = "getPool" => Unusable(cyc'[b].uniPrice)
           /\ (cyc[b].pc = "getAssetPriceB"
                 /\ (cyc[b].uniPrice.cls # "fin" \/ cyc[b].sushiPrice.cls # "fin"))
                => cyc'[b].pc # "executeFlashLoan"
      /\ (tx.pc = "checkUni" /\ tx'.pc = "checkSushi" /\ ~wethIsToken0
            /\ chain'.uni.exists /\ chain'.uni.sqrtPriceX96 = << >>)
           => tx'.uniPrice = << >>
      /\ (tx.pc = "checkSushi" /\ tx'.pc = "checkArb" /\ ~wethIsToken0
            /\ chain'.sushi.exists /\ chain'.sushi.sqrtPriceX96 = << >>)
           => tx'.sushiPrice = << >>
    ]_vars


(***************************************************************************)
(* Claims about the scanner's configuration                                *)
(***************************************************************************)

\* C19: when one of the required settings BASE_RPC_URL, PRIVATE_KEY,
\* CONTRACT_ADDRESS, USDC_ADDRESS, WETH_ADDRESS, Base_Pool_Provider is
\* missing, the scanner terminates before it subscribes to block
\* notifications: no evaluation cycle runs and no execution is submitted.
C19_ConfigErrorsFatal ==
  (program = "scanner" /\ env # Required) =>
     /\ blockNumber = 0
     /\ \A b \in Blocks : cyc[b].pc = "idle"
     /\ unresolved = 0

\* the settings the code does test: without PRIVATE_KEY, CONTRACT_ADDRESS or
\* Base_Pool_Provider nothing runs
C19_TestedSettings ==
  (program = "scanner" /\
   {"PRIVATE_KEY", "CONTRACT_ADDRESS", "Base_Pool_Provider"} \ env # {}) =>
     /\ blockNumber = 0
     /\ \A b \in Blocks : cyc[b].pc = "idle"
     /\ unresolved = 0

\* without BASE_RPC_URL a cycle sends an execution
C19_NoUrlSends ==
  /\ program = "scanner"
  /\ "BASE_RPC_URL" \notin env
  /\ \E b \in Blocks : cyc[b].pc = "wait"

\* without a token address a cycle runs and ends in the outer catch
C19_NoTokenCycles ==
  /\ program = "scanner"
  /\ "USDC_ADDRESS" \notin env
  /\ \E i \in 1..Len(log) : log[i].kind = "monitor_error"


(***************************************************************************)
(* Claims about the inversion of a pool price                              *)
(***************************************************************************)

\* line 234: the raw price of a pool
RawPriceOf(pool) == UShr(UMul(pool.sqrtPriceX96, pool.sqrtPriceX96), 192)

\* the pool whose price the last step derived (lines 190, 191)
PoolsRead ==
  {pool \in (IF tx.pc = "checkSushi" THEN {chain.uni} ELSE {}) \cup
             (IF tx.pc = "checkArb" THEN {chain.sushi} ELSE {}) : pool.exists}

\* r is p or above it by at most one part in 10^16
WithinRounding(p, r) ==
  /\ r # Panic
  /\ BNCmp(p, r) <= 0
  /\ BNCmp(BNMul(BNSub(r, p), BNPow(<<10>>, 16)), p) <= 0

\* C20: for a pool whose raw price exists and is not zero, inverting the raw
\* price twice, 1e36 / (1e36 / rawPrice), gives the raw price again up to the
\* rounding of the two integer divisions: never less, and more by at most one
\* part in 10^16.
C20_InversionRoundTrip ==
  program = "contract" =>
    \A pool \in PoolsRead : \A p \in {RawPriceOf(pool)} :
      p \notin {<< >>, Panic} =>
        \A r \in {Invert(Invert(p))} : WithinRounding(p, r)

\* a pool with token0 = USDC has been read, its price inverted, and the
\* round trip of its raw price is not exact
C20_Witness ==
  /\ program = "contract"
  /\ ~wethIsToken0
  /\ tx.uniPrice # << >>
  /\ \E pool \in PoolsRead : \E p \in {RawPriceOf(pool)} :
       /\ p \notin {<< >>, Panic}
       /\ Invert(Invert(p)) # p

\* the round trip is exact for the prices of the WETH/USDC market
C20_ExactAtMarket ==
  program = "contract" =>
    \A pool \in PoolsRead : \A p \in {RawPriceOf(pool)} :
      (p \notin {<< >>, Panic} /\ BNCmp(p, BNPow(<<10>>, 18)) <= 0) =>
        Invert(Invert(p)) = p

\* the round trip differs from the raw price by one unit at most
C20_WithinOneUnit ==
  program = "contract" =>
    \A pool \in PoolsRead : \A p \in {RawPriceOf(pool)} :
      p \notin {<< >>, Panic} =>
        \A r \in {Invert(Invert(p))} :
          r # Panic /\ BNCmp(r, BNAdd(p, <<1>>)) <= 0


(***************************************************************************)
(* Claims about the scanner's threshold option                             *)
(***************************************************************************)

\* the threshold the file header documents: FLASHLOAN_THRESHOLD_BPS when it is
\* set, 11 when it is not
DocumentedBps == IF flashEnv = << >> THEN 11 ELSE flashEnv[1]

\* C21: the scanner's trigger threshold is the value of FLASHLOAN_THRESHOLD_BPS
\* when that option is set and 11 when it is not, and the trigger comparison
\* of every cycle uses that value.
C21_DocumentedThreshold ==
  [][ \A b \in Blocks :
        (cyc[b].pc = "getAssetPriceB" /\ lastEval'.cycle = b)
          => /\ AtLeast(lastEval'.totalArbsbps, DocumentedBps)
                  <=> (cyc'[b].pc = "executeFlashLoan")
             /\ AtLeast(lastEval'.totalArbsbps, DocumentedBps)
                  <=> (lastEval'.action = "FLASHLOAN_TRIGGERED")
    ]_vars

\* with FLASHLOAN_THRESHOLD_BPS = 50 a cycle whose total is below 50 has
\* submitted an execution
C21_OptionIgnored ==
  \E b \in Blocks :
    /\ flashEnv = <<50>>
    /\ lastEval.cycle = b
    /\ ~AtLeast(lastEval.totalArbsbps, 50)
    /\ cyc[b].pc = "executeFlashLoan"

\* the threshold is 11 when neither option is set
C21_DefaultEleven ==
  [][ \A b \in Blocks :
        (cyc[b].pc = "getAssetPriceB" /\ lastEval'.cycle = b
           /\ arbEnv = << >> /\ flashEnv = << >>)
          => AtLeast(lastEval'.totalArbsbps, 11)
                  <=> (cyc'[b].pc = "executeFlashLoan")
    ]_vars


(***************************************************************************)
(* Claims about the order of an execution's steps                          *)
(***************************************************************************)

\* the steps of an execution in the order of the code: the borrow requested,
\* the borrow received, leg 1 done, leg 2 done, the profit check passed
ExecPcs == <<"flashLoanSimple", "executeOperation", "secondSwap", "profitCheck", "repay">>

Venues == {"uni", "sushi"}

\* C22: the steps of an execution occur in the order borrow received, leg 1
\* (the borrowed WETH into USDC), leg 2 (the USDC back into WETH on the other
\* venue), profit check, repayment; each step begins where its predecessor
\* ended, and a step that fails ends the execution without Repaid, with no
\* later step and nothing of the earlier steps left.
C22_StepOrder ==
  [][ program = "contract" =>
      /\ \A i \in 2..5 :
           (tx'.pc = ExecPcs[i] /\ tx.pc # ExecPcs[i]) => tx.pc = ExecPcs[i - 1]
      /\ (tx.pc = "flashLoanSimple" /\ tx'.pc = "executeOperation")
           => ledger'.bal["weth"]["bot"] = ledger.bal["weth"]["bot"] + tx.amount
      /\ (tx.pc = "executeOperation" /\ tx'.pc = "secondSwap")
           => \E v \in Venues :
                /\ ledger'.bal["weth"][v] = ledger.bal["weth"][v] + tx.amount
                /\ ledger'.bal["usdc"][v] < ledger.bal["usdc"][v]
                /\ ledger'.bal["usdc"]["bot"] > ledger.bal["usdc"]["bot"]
                /\ \A w \in Venues \ {v} :
                     \A t \in Tokens : ledger'.bal[t][w] = ledger.bal[t][w]
      /\ (tx.pc = "secondSwap" /\ tx'.pc = "profitCheck")
           => \E w \in Venues :
                /\ ledger.bal["weth"][w] = snap.bal["weth"][w]
                /\ \A v \in Venues \ {w} : ledger.bal["weth"][v] > snap.bal["weth"][v]
                /\ ledger'.bal["usdc"][w] = ledger.bal["usdc"][w] + ledger.bal["usdc"]["bot"]
                /\ ledger'.bal["usdc"]["bot"] = 0
                /\ ledger'.bal["weth"][w] < ledger.bal["weth"][w]
      /\ (tx.pc = "profitCheck" /\ tx'.pc = "repay")
           => ledger.bal["weth"]["bot"] > tx.amount + tx.premium
      /\ (tx.pc # "idle" /\ tx'.pc = "idle" /\ tx'.outcome = "Repaid")
           => /\ tx.pc = "repay"
              /\ ledger'.bal["weth"]["aave"] =
                   snap.bal["weth"]["aave"] + tx.premium
      /\ (tx.pc # "idle" /\ tx'.pc = "idle" /\ tx.pc # "repay")
           => /\ tx'.outcome # "Repaid"
              /\ ledger' = snap
    ]_vars

\* the profit check has passed in an execution that sold on Sushi first
C22_Witness ==
  /\ program = "contract"
  /\ tx.pc = "repay"
  /\ ledger.bal["weth"]["sushi"] > snap.bal["weth"]["sushi"]
  /\ ledger.bal["usdc"]["uni"] > snap.bal["usdc"]["uni"]


(***************************************************************************)
(* Claims about what an execution leaves in the contract                   *)
(***************************************************************************)

\* the step that ends an execution as Repaid
RepaidEnds == program = "contract" /\ tx.pc = "repay" /\ tx'.outcome = "Repaid"

\* C23: whatever WETH and USDC the contract held before, an execution that
\* ends Repaid leaves it, the repayment of amount + premium made, with
\* strictly more WETH than it held just before the flash loan was received.
C23_NoLossWhenRepaid ==
  [][ RepaidEnds => ledger'.bal["weth"]["bot"] > snap.bal["weth"]["bot"] ]_vars

\* an execution of a contract that held no WETH does leave it with more
C23_FromEmpty ==
  [][ (RepaidEnds /\ snap.bal["weth"]["bot"] = 0)
        => ledger'.bal["weth"]["bot"] > snap.bal["weth"]["bot"] ]_vars

\* the profit check has passed in an execution whose swaps returned no more
\* than the repayment: the WETH held before is what made it pass
C23_MaskedByHolding ==
  /\ program = "contract"
  /\ tx.pc = "repay"
  /\ snap.bal["weth"]["bot"] > 0
  /\ ledger.bal["weth"]["bot"] - snap.bal["weth"]["bot"] <= tx.amount + tx.premium


(***************************************************************************)
(* Claims about the inputs of an evaluation                                *)
(***************************************************************************)

\* the step in which cycle b computes its metrics and takes its decision
Evaluates(b) == lastEval' # lastEval /\ lastEval'.cycle = b

\* C24: a cycle computes its metrics and its trigger decision only when both
\* venue reads and the oracle read of that same cycle have completed with a
\* value; a cycle in which a read is unavailable decides nothing; every read
\* of a cycle is made while the guard is held.
C24_CompleteInputsOnly ==
  [][ program = "scanner" => \A b \in Blocks :
        /\ Running(b) => processingBlock
        /\ Evaluates(b) =>
             /\ cyc[b].pc = "getAssetPriceB"
             /\ cyc[b].uniPrice.cls # "null"
             /\ cyc[b].sushiPrice.cls # "null"
             /\ cyc[b].tmp.cls = "fin"
             /\ lastEval'.uniPrice = cyc[b].uniPrice
             /\ lastEval'.sushiPrice = cyc[b].sushiPrice
             /\ lastEval'.aavePrice.cls = "fin"
        /\ (cyc'[b].pc = "executeFlashLoan" /\ cyc[b].pc # "executeFlashLoan")
             => Evaluates(b)
        /\ (opportunityCount' # opportunityCount \/ flashloanCount' # flashloanCount)
             => \E c \in Blocks : Evaluates(c)
    ]_vars

\* the second cycle has evaluated, after the first evaluated and logged its summary
C24_Witness ==
  /\ program = "scanner"
  /\ lastEval.cycle = 2
  /\ opportunityCount = 2
  /\ \E i \in 1..Len(log) : log[i].cycle = 1 /\ log[i].kind = "summary"


(***************************************************************************)
(* Claims about what passes from one cycle to the next                     *)
(***************************************************************************)

\* what a cycle decides from the prices it read and the threshold: the data
\* object, the route and the action
DecisionOf(b, uniPrice, sushiPrice, aavePrice) ==
  LET data == checkArbitrageOpportunity(uniPrice, sushiPrice, aavePrice)
  IN  [cycle |-> b, uniPrice |-> data.uniPrice, sushiPrice |-> data.sushiPrice,
       aavePrice |-> data.aavePrice, BApercent |-> data.BApercent,
       DSpercent |-> data.DSpercent, totalArbsbps |-> data.totalArbsbps,
       route |-> Route(uniPrice, sushiPrice),
       action |-> IF AtLeast(data.totalArbsbps, ThresholdBps)
                  THEN "FLASHLOAN_TRIGGERED" ELSE "NO_FLASHLOAN"]

\* C25: the metrics and the decision of a cycle are a function of the prices
\* read in that cycle and of the threshold, whatever earlier cycles read,
\* decided or counted; a cycle begins with nothing of an earlier cycle, and
\* leaves behind the released guard, the records appended to the log and the
\* counters.
C25_NoCrossCycleInfluence ==
  [][ program = "scanner" => \A b \in Blocks :
        /\ Evaluates(b) =>
             \E wethPriceBN \in WethOraclePrices :
               \E aavePrice \in {getOracleRatio(cyc[b].tmp.n, wethPriceBN)} :
                 /\ aavePrice # Thrown
                 /\ lastEval' = DecisionOf(b, cyc[b].uniPrice, cyc[b].sushiPrice, aavePrice)
                 /\ (cyc'[b].pc = "executeFlashLoan")
                      <=> (lastEval'.action = "FLASHLOAN_TRIGGERED")
        /\ (cyc[b].pc = "idle" /\ cyc'[b].pc # "idle") =>
             /\ cyc'[b].pc \in {"dropped", "getPool"}
             /\ cyc'[b].uniPrice = Null /\ cyc'[b].sushiPrice = Null
             /\ cyc'[b].tmp = Null
             /\ cyc'[b].pc = "getPool" => lastEval' = NoEval
        /\ (Running(b) /\ ~Running(b)') =>
             /\ cyc'[b] = [Blank EXCEPT !.pc = cyc'[b].pc]
             /\ processingBlock' = FALSE
             /\ Len(log') >= Len(log) /\ SubSeq(log', 1, Len(log)) = log
    ]_vars

\* the second cycle has declined after the first cycle triggered
C25_Witness ==
  /\ program = "scanner"
  /\ lastEval.cycle = 2
  /\ lastEval.action = "NO_FLASHLOAN"
  /\ flashloanCount = 1
  /\ opportunityCount = 2

\* the second cycle has triggered after the first cycle triggered
C25_TriggersAgain ==
  /\ program = "scanner"
  /\ lastEval.cycle = 2
  /\ lastEval.action = "FLASHLOAN_TRIGGERED"
  /\ flashloanCount = 2


(***************************************************************************)
(* Claims that compare the contract's check with the scanner's             *)
(***************************************************************************)

\* the sqrtPriceX96 values of the WETH/USDC market
MarketSqrt == {SqrtW_Real3000, SqrtW_Real3010, SqrtU_Real3000, SqrtU_Real3010}

\* line 123 of the scanner: (Number(sqrtPriceX96) / 2 ** 96) ** 2
jsRawPrice(sqrtPriceX96) ==
  CASE sqrtPriceX96 = SqrtW_Real3000 -> Fin(3000, 1, -12)
    [] sqrtPriceX96 = SqrtW_Real3010 -> Fin(3010, 1, -12)
    [] sqrtPriceX96 = SqrtU_Real3000 -> Fin(1, 3000, 12)
    [] sqrtPriceX96 = SqrtU_Real3010 -> Fin(1, 3010, 12)
    [] OTHER -> JSInt(0)

\* lines 114-133 of the scanner for the pool the contract reads
ScannerPriceOf(pool) ==
  IF ~pool.exists THEN Null
  ELSE getPoolPrice(jsRawPrice(pool.sqrtPriceX96), ~wethIsToken0, ~wethIsToken0)

\* lines 149-177 and 209 of the scanner: whether a cycle that reads these
\* pools and oracle prices triggers at threshold t
ScannerDecides(uniPool, sushiPool, wethPrice, usdcPrice, t) ==
  \E uniPrice \in {ScannerPriceOf(uniPool)}, sushiPrice \in {ScannerPriceOf(sushiPool)} :
    /\ ~Falsy(uniPrice) /\ ~Falsy(sushiPrice)
    /\ \E aavePrice \in {getOracleRatio(usdcPrice, wethPrice)} :
         /\ aavePrice # Thrown
         /\ JSGe(checkArbitrageOpportunity(uniPrice, sushiPrice, aavePrice).totalArbsbps,
                 JSInt(t))

\* the transaction has read pools of the market, or found none
ReadMarket ==
  /\ program = "contract"
  /\ tx.pc = "gate"
  /\ \A pool \in {chain.uni, chain.sushi} :
       ~pool.exists \/ pool.sqrtPriceX96 \in MarketSqrt

\* C26: for the same pools (sqrtPriceX96 and token order), the same oracle
\* prices and the same threshold, checkArbOpportunity decides as the
\* scanner's getPoolPrice, checkArbitrageOpportunity and threshold comparison
\* decide.
C26_SameDecision ==
  ReadMarket =>
    (tx.hasOpp <=> ScannerDecides(chain.uni, chain.sushi, chain.wethPrice,
                                  chain.usdcPrice, arbThresholdBps))

\* pools with token0 = WETH, as on Base: the scanner triggers, the contract
\* finds no valid pool
C26_ScannerOnly ==
  /\ ReadMarket
  /\ wethIsToken0
  /\ ~tx.hasOpp
  /\ ScannerDecides(chain.uni, chain.sushi, chain.wethPrice, chain.usdcPrice,
                    arbThresholdBps)

\* pools with token0 = USDC: the contract finds an opportunity, the scanner
\* declines
C26_ContractOnly ==
  /\ ReadMarket
  /\ ~wethIsToken0
  /\ tx.hasOpp
  /\ chain.uni.exists /\ chain.sushi.exists /\ chain.wethPrice > 0 /\ chain.usdcPrice > 0
  /\ ~ScannerDecides(chain.uni, chain.sushi, chain.wethPrice, chain.usdcPrice,
                     arbThresholdBps)


\* a JavaScript number that is a natural number below 10^8, and that number
IsNat(x) == x.cls = "fin" /\ x.d = 1 /\ x.n > 0 /\ x.k >= 0 /\ x.k <= 4 /\ x.n < 10000
NatOf(x) == x.n * Pow10(x.k)

\* lines 197-211 of the contract for the prices of the scanner's evaluation e
OnChainTotal(e) ==
  checkArbOpportunity(BN(NatOf(e.uniPrice)), BN(NatOf(e.sushiPrice)),
                      BN(NatOf(e.aavePrice))).totalArbsbps

\* the scanner's last evaluation triggered, from prices the contract can hold
TriggeredOnNats ==
  /\ program = "scanner"
  /\ lastEval.action = "FLASHLOAN_TRIGGERED"
  /\ IsNat(lastEval.uniPrice) /\ IsNat(lastEval.sushiPrice) /\ IsNat(lastEval.aavePrice)

\* C27: for equal venue prices, oracle price and threshold on both sides, a
\* cycle that triggers (signed total at or above the threshold) is one for
\* which checkArbOpportunity returns hasOpp = true.
C27_TriggerPassesGate ==
  TriggeredOnNats =>
    \E total \in {OnChainTotal(lastEval)} :
      total # Panic /\ AtLeastU(total, ThresholdBps)

\* a cycle whose total exceeds the threshold by 2 bps or more passes the gate
C27_WithMargin ==
  (TriggeredOnNats /\ AtLeast(lastEval.totalArbsbps, ThresholdBps + 2)) =>
    \E total \in {OnChainTotal(lastEval)} :
      total # Panic /\ AtLeastU(total, ThresholdBps)

\* a cycle has triggered at exactly 50 bps, which the contract computes as 49
C27_RoundedBelow ==
  /\ TriggeredOnNats
  /\ ThresholdBps = 50
  /\ lastEval.totalArbsbps = JSInt(50)
  /\ OnChainTotal(lastEval) = <<49>>


(***************************************************************************)
(* Claims about who and what lets the contract trade                       *)
(***************************************************************************)

\* the steps of executeFlashLoan before the flash loan is requested
CheckPcs == {"checkUni", "checkSushi", "checkArb", "gate"}

\* C28: executeFlashLoan requests the flash loan only if checkArbOpportunity
\* has returned true in the same transaction; when it returns false the call
\* reverts, and no borrow, swap, approval or event has occurred.
C28_GateBeforeBorrow ==
  [][ program = "contract" =>
      /\ tx.pc \in CheckPcs => ledger = snap
      /\ (tx'.pc = "flashLoanSimple" /\ tx.pc # "flashLoanSimple")
           => /\ tx.pc = "gate"
              /\ tx.hasOpp
              /\ tx.hasOpp = checkArbOpportunity(tx.uniPrice, tx.sushiPrice,
                                                 tx.aavePrice).hasOpp
      /\ (tx.pc = "gate" /\ ~tx.hasOpp)
           => /\ tx'.pc = "idle"
              /\ tx'.outcome = "Reverted_NoArbitrage"
              /\ ledger' = snap
      /\ ledger'.bal["weth"]["aave"] < ledger.bal["weth"]["aave"]
           => tx.pc = "flashLoanSimple"
      /\ Len(ledger'.events) > Len(ledger.events)
           => tx.pc \in {"flashLoanSimple", "profitCheck"}
    ]_vars

\* after a Repaid execution, a call has reverted at the gate: the balances,
\* allowances and events are those the first execution left
C28_Witness ==
  /\ program = "contract"
  /\ txCount = 2
  /\ tx.outcome = "Reverted_NoArbitrage"
  /\ Len(ledger.events) = 3
  /\ ledger = snap


\* the steps inside executeOperation and the repayment that follows it
TradePcs == {"executeOperation", "secondSwap", "profitCheck", "repay"}

\* the outcomes of a call of executeOperation that the requires refuse
Refused == {"Reverted_Caller", "Reverted_Initiator", "Reverted_Asset"}

\* C29: executeOperation swaps, approves and emits only when the Aave pool
\* calls it for the flash loan the contract itself requested, in WETH; every
\* other call reverts and leaves balances, allowances and events unchanged,
\* so nobody but the pool acting on the contract's own request makes the
\* contract trade.
C29_CallbackAuthentication ==
  [][ program = "contract" =>
      /\ (tx'.pc \in TradePcs /\ tx.pc \notin TradePcs)
           => /\ tx.pc = "flashLoanSimple"
              /\ tx'.pc = "executeOperation"
              /\ Requires("aave", "bot", "weth") = "ok"
      /\ tx'.outcome \in Refused
           => /\ tx'.pc = "idle"
              /\ ledger' = ledger
      /\ (ledger'.allow # ledger.allow \/ ledger'.events # ledger.events
            \/ \E t \in Tokens, a \in Spenders : ledger'.bal[t][a] # ledger.bal[t][a])
           => tx.pc \in TradePcs \cup {"flashLoanSimple"}
      /\ \A c \in ForeignCalls : Requires(c.sender, c.initiator, c.asset) # "ok"
    ]_vars

\* after a Repaid execution, the pool has called executeOperation for a loan
\* that another account requested: the call is refused and nothing has moved
C29_Witness ==
  /\ program = "contract"
  /\ txCount = 2
  /\ tx.outcome = "Reverted_Initiator"
  /\ ledger = snap
  /\ ledger.bal["weth"]["bot"] > 0


\* a call of executeFlashLoan, partialWithdraw or withdrawAll begins and, for
\* the two withdrawals, ends in this step
OwnerFunctionCalled ==
  /\ program = "contract"
  /\ tx.pc = "idle"
  /\ txCount' # txCount
  /\ tx'.outcome \notin Refused
  /\ tx'.pc # "executeOperation"

\* C30: owner is the deployer in every reachable state; executeFlashLoan,
\* partialWithdraw and withdrawAll take effect only when the owner calls them,
\* and a call by any other account reverts with no change of balances,
\* allowances or storage.
C30_OwnerOnly ==
  [][ program = "contract" =>
      /\ owner = Deployer /\ owner' = owner
      /\ (OwnerFunctionCalled /\ tx'.caller # owner)
           => /\ tx'.pc = "idle"
              /\ tx'.outcome = "Reverted_NotOwner"
              /\ ledger' = ledger
              /\ UNCHANGED <<wethIsToken0, arbThresholdBps>>
      /\ (tx'.pc = "checkUni" /\ tx.pc # "checkUni") => tx'.caller = owner
      /\ tx'.outcome = "Withdrawn" => tx'.caller = owner
      /\ (tx.pc = "idle" /\ ledger' # ledger)
           => /\ tx'.caller = owner
              /\ tx'.outcome = "Withdrawn"
              /\ \E t \in Tokens :
                   /\ ledger'.bal[t]["bot"] < ledger.bal[t]["bot"]
                   /\ ledger'.bal[t][owner] - ledger.bal[t][owner]
                        = ledger.bal[t]["bot"] - ledger'.bal[t]["bot"]
    ]_vars

\* another account's call has been refused while the contract holds WETH
C30_Witness ==
  /\ program = "contract"
  /\ txCount = 2
  /\ tx.outcome = "Reverted_NotOwner"
  /\ tx.caller = "other"
  /\ ledger.bal["weth"]["bot"] > 0
  /\ ledger = snap

\* the owner has withdrawn the WETH an execution left in the contract
C30_OwnerWithdrew ==
  /\ program = "contract"
  /\ tx.outcome = "Withdrawn"
  /\ ledger.bal["weth"]["owner"] > 0
  /\ ledger.bal["weth"]["bot"] = 0


(***************************************************************************)
(* The on-chain price of an existing pool                                  *)
(***************************************************************************)

\* a pool that exists and whose sqrtPriceX96 is positive
ReadLivePool(pool) ==
  /\ pool.exists
  /\ pool.sqrtPriceX96 # << >>

\* C31: for every existing pool with a positive sqrtPriceX96, for both token
\* orderings and for the configured decimals, _getPoolPrice returns a
\* strictly positive price, so the "no valid pool" result of
\* checkArbOpportunity (a price of 0) occurs only when the factory reports
\* no pool (or the pool's sqrtPriceX96 is 0).
C31_ZeroOnlyForMissingPool ==
  program = "contract" =>
    /\ (tx.pc = "checkSushi" /\ ReadLivePool(chain.uni))
         => tx.uniPrice # << >>
    /\ (tx.pc = "checkArb" /\ ReadLivePool(chain.sushi))
         => tx.sushiPrice # << >>
    /\ (tx.pc = "gate" /\ (tx.uniPrice = << >> \/ tx.sushiPrice = << >>))
         => \E pool \in {chain.uni, chain.sushi} :
              ~pool.exists \/ pool.sqrtPriceX96 = << >>

\* with token0 = USDC the price of every such pool of the model is positive
C31_PositiveUsdcFirst ==
  (program = "contract" /\ ~wethIsToken0) =>
    /\ (tx.pc = "checkSushi" /\ ReadLivePool(chain.uni))
         => tx.uniPrice # << >>
    /\ (tx.pc = "checkArb" /\ ReadLivePool(chain.sushi))
         => tx.sushiPrice # << >>

\* with token0 = WETH, as on Base, both pools of the market exist and the
\* result is "no valid pool"
C31_ZeroAtMarket ==
  /\ program = "contract"
  /\ wethIsToken0
  /\ tx.pc = "gate"
  /\ chain.uni = [exists |-> TRUE, sqrtPriceX96 |-> SqrtW_Real3000]
  /\ chain.sushi = [exists |-> TRUE, sqrtPriceX96 |-> SqrtW_Real3000]
  /\ tx.uniPrice = << >>
  /\ ~tx.hasOpp


(***************************************************************************)
(* The statistics counters of the scanner                                  *)
(***************************************************************************)

\* the calls of handleBlock that passed the guard
Started == {b \in Blocks : b <= blockNumber /\ cyc[b].pc # "dropped"}

\* the cycles that have gone past line 200
PastData == {b \in Started : cyc[b].pc \in {"executeFlashLoan", "wait", "done", "rejected"}}

\* the cycles in their transaction (lines 215-217)
InTransaction == {b \in Blocks : cyc[b].pc \in {"executeFlashLoan", "wait"}}

CountersOrdered ==
  program = "scanner" =>
    /\ flashloanCount <= opportunityCount
    /\ opportunityCount <= Cardinality(PastData)
    /\ Cardinality(PastData) <= Cardinality(Started)
    /\ Cardinality(InTransaction) <= flashloanCount

\* cycle b obtains its data object in this step
ObtainsData(b) ==
  /\ Evaluates(b)
  /\ cyc[b].pc = "getAssetPriceB"
  /\ cyc'[b].pc # "getAssetPriceB"

CountersStep ==
  program = "scanner" =>
    /\ opportunityCount' =
         IF \E b \in Blocks : ObtainsData(b) THEN opportunityCount + 1
                                             ELSE opportunityCount
    /\ flashloanCount' =
         IF \E b \in Blocks :
              ObtainsData(b) /\ JSGe(lastEval'.totalArbsbps, FLASHLOAN_THRESHOLD_BPS)
         THEN flashloanCount + 1
         ELSE flashloanCount
    /\ \A b \in Blocks : Evaluates(b) => ObtainsData(b)

\* C32: in every reachable state flashloanCount <= opportunityCount <= the
\* number of cycles started; opportunityCount increases by exactly one in
\* each cycle that obtains data and in no other step, flashloanCount
\* increases by exactly one in each cycle that triggers, whether or not its
\* transaction then succeeds, and in no other step; neither counter ever
\* decreases.
C32_StatisticsCounters == []CountersOrdered /\ [][CountersStep]_vars

\* two cycles had data; the first triggered and its transaction failed, the
\* second did not trigger
C32_Witness ==
  /\ program = "scanner"
  /\ opportunityCount = 2
  /\ flashloanCount = 1
  /\ \E i \in 1..Len(log) : log[i].cycle = 1 /\ log[i].kind = "tx_error"
  /\ lastEval.cycle = 2
  /\ lastEval.action = "NO_FLASHLOAN"


(***************************************************************************)
(* What TriFlash holds after a successful initFlash                        *)
(***************************************************************************)

\* C33: for every successful initFlash(amountWeth) the contract transfers
\* exactly amountWeth + fee0 to the lending pool and exactly
\* wethFinal - (amountWeth + fee0) to the account that called initFlash, so
\* the WETH balance of TriFlash after the call equals its balance before the
\* call.
C33_KeepsNothing ==
  [][ (program = "triflash" /\ TriRepaidStep)
        => /\ triLedger'["weth"]["pool"] = triLedger["weth"]["pool"] + amountOwed
           /\ triLedger'["weth"][tri.payer] =
                triLedger["weth"][tri.payer] + (tri.wethFinal - amountOwed)
           /\ triLedger'["weth"]["tri"] = triSnap["weth"]["tri"]
    ]_vars

\* the two transfers are as stated, and the pool ends with its fee
C33_ExactTransfers ==
  [][ (program = "triflash" /\ TriRepaidStep)
        => /\ triLedger'["weth"]["pool"] = triLedger["weth"]["pool"] + amountOwed
           /\ triLedger'["weth"][tri.payer] =
                triLedger["weth"][tri.payer] + (tri.wethFinal - amountOwed)
           /\ triLedger'["weth"]["pool"] = triSnap["weth"]["pool"] + tri.fee0
    ]_vars

\* after a successful call TriFlash holds the WETH it borrowed besides what it
\* held before: the swaps took nothing from it
C33_KeepsPrincipal ==
  (program = "triflash" /\ tri.outcome = "Repaid")
    => /\ triLedger["weth"]["tri"] = triSnap["weth"]["tri"] + tri.amtWeth
       /\ triLedger["cbbtc"]["tri"] > triSnap["cbbtc"]["tri"]
       /\ triLedger["usdc"]["tri"] > triSnap["usdc"]["tri"]

\* a successful call has ended
C33_Succeeded ==
  /\ program = "triflash"
  /\ tri.outcome = "Repaid"
  /\ tri.amtWeth > 0

=============================================================================
